---- MODULE Spec2Model ----
(***************************************************************************)
(* Reader-flow health tracer (ClientReadersFlowTracer) of LogDevice.       *)
(*                                                                         *)
(* A tracer is a record; every method of the class is an operator from the *)
(* tracer before the call (and the worker's environment) to the tracer     *)
(* after it.  The environment holds the owning read stream's fields the    *)
(* tracer reads, the overload detector, the worker's settings and the      *)
(* clock.  Tail queries in flight are counted per tracer; the content of a *)
(* completion is chosen when it is delivered.                              *)
(***************************************************************************)
EXTENDS Integers, Sequences, FiniteSets, TLC

\* ------------------------------------------------------------------ bounds
MaxTime == 1        \* the clock runs from 0 to MaxTime
MaxLsn == 1         \* log positions 1..MaxLsn (0 is LSN_INVALID)
MaxTs == 3          \* tail timestamps 0..MaxTs
MaxRecordTs == 1    \* timestamps of delivered records 1..MaxRecordTs
MaxPeriod == 1      \* tick periods 0..MaxPeriod
MaxThreshold == 1   \* reader_stuck_threshold 0..MaxThreshold
MaxGroups == 2      \* num_sample_groups 1..MaxGroups
MaxGroupSize == 2   \* sample_group_size 1..MaxGroupSize
MaxInflight == 2    \* tail queries in flight per tracer
MaxCorr == 2        \* |time_lag_correction| of a bucket
MaxWrap == 2        \* how far below 0 the ttl of a bucket is followed
MaxGrowth == 13     \* samples of the lagging-growth run
MaxVersion == 2     \* versions of the view of a configuration source

\* --------------------------------------------------------------- constants
LSN_INVALID == 0
LSN_MAX == 1000000          \* the maximum log position: until_lsn of a tailing reader
TimePointMax == -1          \* TimePoint::max(): the dwell timer is not running
NoLag == -1                 \* folly::none of estimateTimeLag()
TtlModulus == 65536         \* ttl is a uint16_t

Healthy == "HEALTHY"
Lagging == "LAGGING"
Stuck == "STUCK"
StuckFailing == "STUCK_WHILE_FAILING_SYNC_SEQ_REQ"
States == {Healthy, Lagging, Stuck, StuckFailing}

OK == "OK"
Statuses == {"OK", "TIMEDOUT", "NOBUFS"}

\* The counters of Stats the tracer adds to: the tagged family and the
\* ignoring-overload family.
Counters ==
  {"read_streams_stuck_or_lagging", "read_streams_stuck_failing_sync_seq_req",
   "read_streams_stuck", "read_streams_lagging",
   "read_streams_stuck_or_lagging_ignoring_overload",
   "read_streams_stuck_ignoring_overload",
   "read_streams_lagging_ignoring_overload"}

Primary == "primary"
Shadow == "shadow"

\* Two runs of a primary tracer side by side: the reference run is tracked
\* throughout, the interrupted run has untracked intervals inserted.
Reference == "reference"
Interrupted == "interrupted"

VARIABLES
  env,        \* owner's fields, overload detector, settings, clock
  tr,         \* tracer id -> tracer record
  inflight,   \* tracer id -> number of tail queries posted and not completed
  out,        \* what the last handler did: its kind and what it observed
  hist,       \* tracer id -> history of the current stuck dwell interval
  pub         \* the NodesConfigurationPublisher, its sources and its callers

vars == <<env, tr, inflight, out, hist, pub>>

\* The value of pub in the runs of the tracer, which have no publisher.
NoPublisher == <<>>

\* ----------------------------------------------------------------- helpers
Max(a, b) == IF a >= b THEN a ELSE b
Min(a, b) == IF a <= b THEN a ELSE b

RECURSIVE Gcd(_, _)
Gcd(a, b) == IF b = 0 THEN a ELSE Gcd(b, a % b)

RECURSIVE LcmUpTo(_)
LcmUpTo(n) == IF n <= 1 THEN 1 ELSE (LcmUpTo(n - 1) * n) \div Gcd(LcmUpTo(n - 1), n)

Lcm(a, b) == (a * b) \div Gcd(a, b)

\* sample_counter_ is read only modulo group_size: the model keeps it modulo
\* a common multiple of every group size up to MaxGroupSize and of the group
\* size in use.
CounterModulus == LcmUpTo(MaxGroupSize)

RECURSIVE SumCorr(_)
SumCorr(rec) ==
  IF rec = <<>> THEN 0 ELSE Head(rec).time_lag_correction + SumCorr(Tail(rec))

\* ------------------------------------------------------- lag record (ring)
\* A bucket is a TimeLagSample [time_lag, time_lag_correction, ttl] with its
\* history: age, the lag steps it has been through since the one that opened
\* it, and opened_ttl, the ttl it was opened with.
\*
\* What a handler did to the lag record is collected in the field obs of the
\* tracer while the handler runs: opened, a bucket entered the record; left,
\* the buckets that left it, each with the way it left and its lifetime, the
\* number of lag steps after the one that opened it up to the one in which it
\* left; traced, how often a handler came to traceReaderFlow() and
\* bumpHistograms(); pushed, how often traceReaderFlow() went on to build
\* and publish a sample.
NoObs == [opened |-> FALSE, left |-> {}, traced |-> 0, pushed |-> 0]

Left(how, b, lifetime) ==
  [how |-> how, lifetime |-> lifetime, opened_ttl |-> b.opened_ttl]

Settled(t) == [t EXCEPT !.obs = NoObs]

\* while (!empty() && front().ttl == 0) pop_front();
RECURSIVE PopOldSamples(_)
PopOldSamples(rec) ==
  IF rec # <<>> /\ Head(rec).ttl = 0 THEN PopOldSamples(Tail(rec)) ELSE rec

\* for (auto& s : time_lag_record_) --s.ttl;   (uint16_t arithmetic)
DecrementTtls(rec) ==
  [i \in 1..Len(rec) |->
     [rec[i] EXCEPT !.ttl = (@ - 1) % TtlModulus, !.age = @ + 1]]

\* Mutant: the new bucket is put in front of the others.
PushBack_front(rec, capacity, b) ==
  IF capacity = 0 THEN rec
  ELSE IF Len(rec) >= capacity THEN <<b>> \o SubSeq(rec, 1, Len(rec) - 1)
  ELSE <<b>> \o rec

\* Mutant: a full record takes no new bucket.
PushBack_noOverwrite(rec, capacity, b) ==
  IF Len(rec) >= capacity THEN rec ELSE Append(rec, b)

\* circular_buffer::push_back: a full buffer drops its front element.
PushBack(rec, capacity, b) ==
  IF capacity = 0 THEN rec
  ELSE IF Len(rec) >= capacity THEN Append(Tail(rec), b)
  ELSE Append(rec, b)

\* Mutant: a smaller capacity keeps the newest elements.
SetCapacity_newest(rec, capacity) ==
  IF Len(rec) > capacity
  THEN SubSeq(rec, Len(rec) - capacity + 1, Len(rec))
  ELSE rec

\* Mutant: a smaller capacity leaves the elements where they are.
SetCapacity_keep(rec, capacity) == rec

\* circular_buffer::set_capacity: a smaller capacity keeps the first elements.
SetCapacity(rec, capacity) ==
  IF Len(rec) > capacity THEN SubSeq(rec, 1, capacity) ELSE rec

\* Mutant: the product is rounded up.
get_initial_ttl_ceil(group_size, num_groups) ==
  ((5 * group_size * num_groups + 3) \div 4) % TtlModulus

\* uint16_t get_initial_ttl(group_size, num_groups) { return 1.25 * g * n; }
get_initial_ttl(group_size, num_groups) ==
  ((5 * group_size * num_groups) \div 4) % TtlModulus

\* ---------------------------------------------------------------- counters
\* Mutant: a tracer that ignores overload also counts in read_streams_stuck.
CountersOfState_bothFamilies(state, ignoring_overload) ==
  (IF ignoring_overload
   THEN (IF state \in {Stuck, Lagging}
           THEN {"read_streams_stuck_or_lagging_ignoring_overload"} ELSE {})
        \cup (IF state \in {Stuck, StuckFailing}
                THEN {"read_streams_stuck_ignoring_overload"}
              ELSE IF state = Lagging
                THEN {"read_streams_lagging_ignoring_overload"}
              ELSE {})
   ELSE (IF state \in {Stuck, Lagging}
           THEN {"read_streams_stuck_or_lagging"} ELSE {})
        \cup (IF state = StuckFailing
                THEN {"read_streams_stuck_failing_sync_seq_req"} ELSE {})
        \cup (IF state = Lagging THEN {"read_streams_lagging"} ELSE {}))
  \cup (IF state \in {Stuck, StuckFailing} THEN {"read_streams_stuck"}
        ELSE {})

\* The counters updateCountersForState adds `increment` to for `state`.
CountersOfState(state, ignoring_overload) ==
  IF ignoring_overload
  THEN (IF state \in {Stuck, Lagging}
          THEN {"read_streams_stuck_or_lagging_ignoring_overload"} ELSE {})
       \cup (IF state \in {Stuck, StuckFailing}
               THEN {"read_streams_stuck_ignoring_overload"}
             ELSE IF state = Lagging
               THEN {"read_streams_lagging_ignoring_overload"}
             ELSE {})
  ELSE (IF state \in {Stuck, Lagging}
          THEN {"read_streams_stuck_or_lagging"} ELSE {})
       \cup (IF state = StuckFailing
               THEN {"read_streams_stuck_failing_sync_seq_req"} ELSE {})
       \cup (IF state \in {Stuck, StuckFailing}
               THEN {"read_streams_stuck"}
             ELSE IF state = Lagging
               THEN {"read_streams_lagging"}
             ELSE {})

\* `stats` is the tracer's net contribution so far to every counter.
updateCountersForState(stats, state, ignoring_overload, increment) ==
  [c \in Counters |->
     stats[c] + (IF c \in CountersOfState(state, ignoring_overload)
                   THEN increment ELSE 0)]

\* --------------------------------------------------------------- estimates
estimateTimeLag(t, e) ==
  IF t.latest_tail_info.has
  THEN IF t.latest_tail_info.lsn_approx < e.next_lsn_to_deliver THEN 0
       ELSE IF e.last_in_record_ts > 0
         THEN Max(t.latest_tail_info.timestamp - e.last_in_record_ts, 0)
       ELSE NoLag
  ELSE NoLag

estimateTailLSN(t, e) ==
  IF t.latest_tail_info.has
  THEN Max(t.latest_tail_info.lsn_approx, e.last_released)
  ELSE e.last_released

\* ------------------------------------------------------------ maybeBumpStats
\* Mutant: the lagging branch does not look at until_lsn_.
StateToReport_noUntil(t, e, force_healthy) ==
  IF force_healthy THEN Healthy
  ELSE IF (IF t.last_time_stuck # TimePointMax
             THEN t.last_time_stuck + e.settings.reader_stuck_threshold <= e.now
             ELSE FALSE)
    THEN (IF t.last_sync_seq_request_result # OK
             /\ e.next_lsn_to_deliver >= estimateTailLSN(t, e)
            THEN StuckFailing ELSE Stuck)
  ELSE IF t.last_time_lagging # TimePointMax
    THEN Lagging
  ELSE Healthy

\* Mutant: the lagging branch waits for reader_stuck_threshold as well.
StateToReport_lagDwell(t, e, force_healthy) ==
  IF force_healthy THEN Healthy
  ELSE IF (IF t.last_time_stuck # TimePointMax
             THEN t.last_time_stuck + e.settings.reader_stuck_threshold <= e.now
             ELSE FALSE)
    THEN (IF t.last_sync_seq_request_result # OK
             /\ e.next_lsn_to_deliver >= estimateTailLSN(t, e)
            THEN StuckFailing ELSE Stuck)
  ELSE IF /\ t.last_time_lagging # TimePointMax
          /\ t.last_time_lagging + e.settings.reader_stuck_threshold <= e.now
          /\ e.until_lsn = LSN_MAX
    THEN Lagging
  ELSE Healthy

\* Mutant: the stuck branch does not wait for reader_stuck_threshold.
StateToReport_noDwell(t, e, force_healthy) ==
  IF force_healthy THEN Healthy
  ELSE IF t.last_time_stuck # TimePointMax
    THEN (IF t.last_sync_seq_request_result # OK
             /\ e.next_lsn_to_deliver >= estimateTailLSN(t, e)
            THEN StuckFailing ELSE Stuck)
  ELSE IF t.last_time_lagging # TimePointMax /\ e.until_lsn = LSN_MAX
    THEN Lagging
  ELSE Healthy

\* Mutant: the lagging branch is looked at before the stuck branch.
StateToReport_lagFirst(t, e, force_healthy) ==
  IF force_healthy THEN Healthy
  ELSE IF t.last_time_lagging # TimePointMax /\ e.until_lsn = LSN_MAX
    THEN Lagging
  ELSE IF (IF t.last_time_stuck # TimePointMax
             THEN t.last_time_stuck + e.settings.reader_stuck_threshold <= e.now
             ELSE FALSE)
    THEN (IF t.last_sync_seq_request_result # OK
             /\ e.next_lsn_to_deliver >= estimateTailLSN(t, e)
            THEN StuckFailing ELSE Stuck)
  ELSE Healthy

StateToReport(t, e, force_healthy) ==
  IF force_healthy THEN Healthy
  ELSE IF (IF t.last_time_stuck # TimePointMax
             THEN t.last_time_stuck + e.settings.reader_stuck_threshold <= e.now
             ELSE FALSE)
    THEN (IF t.last_sync_seq_request_result # OK
             /\ e.next_lsn_to_deliver >= estimateTailLSN(t, e)
            THEN StuckFailing ELSE Stuck)
  ELSE IF t.last_time_lagging # TimePointMax /\ e.until_lsn = LSN_MAX
    THEN Lagging
  ELSE Healthy

maybeBumpStats(t, e, force_healthy) ==
  LET state_to_report == StateToReport(t, e, force_healthy) IN
  IF state_to_report # t.last_reported_state
  THEN [t EXCEPT
          !.stats = updateCountersForState(
                      updateCountersForState(@, t.last_reported_state,
                                             t.ignore_overload, -1),
                      state_to_report, t.ignore_overload, 1),
          !.last_reported_state = state_to_report]
  ELSE t

\* ----------------------------------------------------------- updateTimeStuck
\* Mutant: an advance of the reader between two calls is not noticed.
updateTimeStuck_noProgress(t, e, tail_lsn, st) ==
  LET is_stuck == t.should_track
                  /\ (st # OK
                      \/ e.next_lsn_to_deliver <= Min(tail_lsn, e.until_lsn))
      t2 == [t EXCEPT !.last_next_lsn_to_deliver = e.next_lsn_to_deliver,
                      !.last_time_stuck =
                         IF ~is_stuck THEN TimePointMax
                         ELSE IF @ = TimePointMax THEN e.now ELSE @]
  IN maybeBumpStats(t2, e, FALSE)

\* Mutant: a sample that is not stuck leaves the dwell timer running.
updateTimeStuck_noReset(t, e, tail_lsn, st) ==
  LET t1 == IF t.last_next_lsn_to_deliver # e.next_lsn_to_deliver
              THEN maybeBumpStats(
                     [t EXCEPT !.last_next_lsn_to_deliver = e.next_lsn_to_deliver,
                               !.last_time_stuck = TimePointMax], e, FALSE)
              ELSE t
      is_stuck == t1.should_track
                  /\ (st # OK
                      \/ e.next_lsn_to_deliver <= Min(tail_lsn, e.until_lsn))
      t2 == [t1 EXCEPT !.last_time_stuck =
               IF is_stuck /\ @ = TimePointMax THEN e.now ELSE @]
  IN maybeBumpStats(t2, e, FALSE)

\* Mutant: every stuck sample restarts the dwell.
updateTimeStuck_restart(t, e, tail_lsn, st) ==
  LET is_stuck == t.should_track
                  /\ (st # OK
                      \/ e.next_lsn_to_deliver <= Min(tail_lsn, e.until_lsn))
      t2 == [t EXCEPT !.last_next_lsn_to_deliver = e.next_lsn_to_deliver,
                      !.last_time_stuck =
                         IF ~is_stuck THEN TimePointMax ELSE e.now]
  IN maybeBumpStats(t2, e, FALSE)

\* Mutant: a reader one past the tail still counts as stuck.
updateTimeStuck_pastTail(t, e, tail_lsn, st) ==
  LET t1 == IF t.last_next_lsn_to_deliver # e.next_lsn_to_deliver
              THEN maybeBumpStats(
                     [t EXCEPT !.last_next_lsn_to_deliver = e.next_lsn_to_deliver,
                               !.last_time_stuck = TimePointMax], e, FALSE)
              ELSE t
      is_stuck == t1.should_track
                  /\ (st # OK
                      \/ e.next_lsn_to_deliver <= Min(tail_lsn, e.until_lsn) + 1)
      t2 == [t1 EXCEPT !.last_time_stuck =
               IF ~is_stuck THEN TimePointMax
               ELSE IF @ = TimePointMax THEN e.now ELSE @]
  IN maybeBumpStats(t2, e, FALSE)

updateTimeStuck(t, e, tail_lsn, st) ==
  LET t1 == IF t.last_next_lsn_to_deliver # e.next_lsn_to_deliver
              THEN maybeBumpStats(
                     [t EXCEPT !.last_next_lsn_to_deliver = e.next_lsn_to_deliver,
                               !.last_time_stuck = TimePointMax], e, FALSE)
              ELSE t
      is_stuck == t1.should_track
                  /\ (st # OK
                      \/ e.next_lsn_to_deliver <= Min(tail_lsn, e.until_lsn))
      t2 == [t1 EXCEPT !.last_time_stuck =
               IF ~is_stuck THEN TimePointMax
               ELSE IF @ = TimePointMax THEN e.now ELSE @]
  IN maybeBumpStats(t2, e, FALSE)

\* The estimate of this completion whatever the status of the query.
LagInput_recompute(t, e, st) == estimateTimeLag(t, e)

\* Mutant: the lag of the newest bucket is reused whenever there is no
\* estimate, also after a successful query.
LagInput_anyStatus(t, e, st) ==
  LET last_lag == estimateTimeLag(t, e) IN
  IF last_lag # NoLag THEN last_lag
  ELSE IF t.time_lag_record # <<>>
    THEN t.time_lag_record[Len(t.time_lag_record)].time_lag
  ELSE NoLag

\* --------------------------------------------------------- updateTimeLagging
\* The lag the slope test of this completion uses, NoLag when it has none.
LagInput(t, e, st) ==
  LET last_lag == estimateTimeLag(t, e) IN
  IF st = OK /\ last_lag # NoLag THEN last_lag
  ELSE IF st # OK /\ t.time_lag_record # <<>>
    THEN t.time_lag_record[Len(t.time_lag_record)].time_lag
  ELSE NoLag

\* Mutant: a lag within one period of the tail is not enough.
IsCatchingUp_noNearTail(cur_ts_lag, period, rec, capacity, slope_num, slope_den, time_window) ==
  \/ Len(rec) # capacity
  \/ (cur_ts_lag - rec[1].time_lag - SumCorr(rec)) * slope_den
       <= slope_num * time_window

\* Mutant: the slope test does not wait for a full record.
IsCatchingUp_noFull(cur_ts_lag, period, rec, capacity, slope_num, slope_den, time_window) ==
  \/ cur_ts_lag <= period
  \/ (cur_ts_lag - rec[1].time_lag - SumCorr(rec)) * slope_den
       <= slope_num * time_window

\* bool is_catching_up: slope_threshold is slope_num / slope_den.
IsCatchingUp(cur_ts_lag, period, rec, capacity, slope_num, slope_den, time_window) ==
  \/ cur_ts_lag <= period
  \/ Len(rec) # capacity
  \/ (cur_ts_lag - rec[1].time_lag - SumCorr(rec)) * slope_den
       <= slope_num * time_window

updateTimeLagging(t, e, st) ==
  LET cur_ts_lag == LagInput(t, e, st) IN
  IF cur_ts_lag = NoLag THEN t
  ELSE
    LET popped == PopOldSamples(t.time_lag_record)
        aged == DecrementTtls(popped)
        evicted == {Left("evicted", t.time_lag_record[j],
                         t.time_lag_record[j].age + 1) :
                      j \in 1..(Len(t.time_lag_record) - Len(popped))}
    IN
    IF ~t.should_track
    THEN maybeBumpStats([t EXCEPT !.time_lag_record = aged,
                                  !.last_time_lagging = TimePointMax,
                                  !.obs.left = @ \cup evicted], e, FALSE)
    ELSE
      LET group_size == Max(e.settings.group_size, 1)
          num_groups == e.settings.num_groups
          opens == (t.sample_counter % group_size) = 0
          counter == (t.sample_counter + 1) % Lcm(CounterModulus, group_size)
          \* the branch on !should_track_ inside the push (lines 473-480)
          new_corr == IF ~t.should_track THEN 0 - cur_ts_lag ELSE 0
          consolidated ==
            IF ~t.should_track /\ aged # <<>>
            THEN [aged EXCEPT ![Len(aged)].time_lag_correction = @ + cur_ts_lag]
            ELSE aged
          initial_ttl == get_initial_ttl(group_size, num_groups)
          rec == IF opens
                 THEN PushBack(consolidated, t.capacity,
                               [time_lag |-> cur_ts_lag,
                                time_lag_correction |-> new_corr,
                                ttl |-> initial_ttl,
                                age |-> 0, opened_ttl |-> initial_ttl])
                 ELSE aged
          entered == opens /\ rec # consolidated
          overwritten ==
            IF entered /\ Len(rec) <= Len(consolidated)
            THEN {Left("overwritten", consolidated[1], consolidated[1].age)}
            ELSE {}
          time_window == t.tracer_period
                         * (group_size * (num_groups - 1) + (counter % group_size))
          is_catching_up ==
            IsCatchingUp(cur_ts_lag, t.tracer_period, rec, t.capacity,
                         e.settings.slope_num, e.settings.slope_den, time_window)
          t1 == [t EXCEPT
                   !.time_lag_record = rec,
                   !.obs = [@ EXCEPT
                              !.opened = entered,
                              !.left = @ \cup evicted \cup overwritten],
                   !.sample_counter = counter,
                   !.last_time_lagging =
                      IF is_catching_up THEN TimePointMax
                      ELSE IF @ = TimePointMax THEN e.now ELSE @]
      IN maybeBumpStats(t1, e, FALSE)

\* --------------------------------------------------------- updateShouldTrack
\* Mutant: the lag is not added back when tracking resumes.
updateShouldTrack_noResume(t, e) ==
  LET overloaded == IF ~t.ignore_overload THEN e.overloaded ELSE FALSE
      should_track == ~overloaded /\ ~e.redelivery_timer_active
                      /\ ~e.window_update_pending
      time_lag == estimateTimeLag(t, e)
      n == Len(t.time_lag_record)
  IN [t EXCEPT
        !.should_track = should_track,
        !.time_lag_record =
           IF t.should_track /\ ~should_track /\ n > 0 /\ time_lag # NoLag
           THEN [@ EXCEPT ![n].time_lag_correction = @ - time_lag]
           ELSE @]

\* Mutant: the gate does not look at window_update_pending_.
ShouldTrack_noWindow(t, e) ==
  LET overloaded == IF ~t.ignore_overload THEN e.overloaded ELSE FALSE IN
  ~overloaded /\ ~e.redelivery_timer_active

\* Mutant: the gate does not look at the redelivery timer.
ShouldTrack_noTimer(t, e) ==
  LET overloaded == IF ~t.ignore_overload THEN e.overloaded ELSE FALSE IN
  ~overloaded /\ ~e.window_update_pending

ShouldTrack(t, e) ==
  LET overloaded == IF ~t.ignore_overload THEN e.overloaded ELSE FALSE IN
  ~overloaded /\ ~e.redelivery_timer_active /\ ~e.window_update_pending

updateShouldTrack(t, e) ==
  LET was_being_tracked == t.should_track
      should_track == ShouldTrack(t, e)
      time_lag == estimateTimeLag(t, e)
      n == Len(t.time_lag_record)
      rec == IF was_being_tracked /\ ~should_track
             THEN (IF n > 0 /\ time_lag # NoLag
                     THEN [t.time_lag_record EXCEPT
                             ![n].time_lag_correction = @ - time_lag]
                     ELSE t.time_lag_record)
             ELSE IF ~was_being_tracked /\ should_track
             THEN (IF n > 0 /\ time_lag # NoLag
                     THEN [t.time_lag_record EXCEPT
                             ![n].time_lag_correction = @ + time_lag]
                     ELSE t.time_lag_record)
             ELSE t.time_lag_record
  IN [t EXCEPT !.should_track = should_track, !.time_lag_record = rec]

\* -------------------------------------------- onSyncSequencerRequestResponse
\* attrs: [has, last_released_real_lsn, last_timestamp]; has = FALSE is a null
\* pointer.
NoAttrs == [has |-> FALSE, last_released_real_lsn |-> LSN_INVALID, last_timestamp |-> 0]

\* Mutant: no fallback to next_lsn - 1.
TailLsnApprox_noFallback(next_lsn, attrs) == attrs.last_released_real_lsn

TailLsnApprox(next_lsn, attrs) ==
  IF attrs.last_released_real_lsn # LSN_INVALID
  THEN attrs.last_released_real_lsn
  ELSE next_lsn - 1

\* traceReaderFlow: a tracer that does not push samples returns at once.
traceReaderFlow(t) ==
  IF ~t.push_samples THEN t ELSE [t EXCEPT !.obs.pushed = @ + 1]

onSyncSequencerRequestResponse(t, e, st, next_lsn, attrs) ==
  LET t1 == [t EXCEPT !.last_sync_seq_request_result = st]
      tail_lsn_approx == TailLsnApprox(next_lsn, attrs)
      t2 == IF st = OK /\ attrs.has
            THEN updateTimeStuck(
                   [t1 EXCEPT !.latest_tail_info =
                      [has |-> TRUE, timestamp |-> attrs.last_timestamp,
                       lsn_approx |-> tail_lsn_approx]],
                   e, tail_lsn_approx, OK)
            ELSE updateTimeStuck(t1, e, LSN_INVALID, st)
  IN traceReaderFlow([updateTimeLagging(t2, e, st) EXCEPT !.obs.traced = @ + 1])

\* --------------------------------------------------------- onSettingsUpdated
onSettingsUpdated(t, e) ==
  LET period == e.settings.tracer_period
      len == e.settings.num_groups
  IN [t EXCEPT
        !.tracer_period = period,
        !.timer_active = (period # 0),
        !.timer_deadline = IF period # 0
                             THEN (IF t.timer_active THEN @ ELSE e.now)
                             ELSE 0,
        !.capacity = len,
        !.time_lag_record = IF len # t.capacity THEN SetCapacity(@, len) ELSE @,
        !.obs.left =
           @ \cup IF len # t.capacity
                  THEN {Left("cut", t.time_lag_record[j], t.time_lag_record[j].age) :
                          j \in (Len(SetCapacity(t.time_lag_record, len)) + 1)
                                  ..Len(t.time_lag_record)}
                  ELSE {}]

\* ---------------------------------------------------------- onTimerTriggered
\* Mutant: the tick does not activate the timer again.
onTimerTriggered_oneShot(t, e, post_ok) ==
  LET t1 == IF post_ok THEN t
            ELSE onSyncSequencerRequestResponse(t, e, "NOBUFS", LSN_INVALID, NoAttrs)
      t2 == maybeBumpStats(updateShouldTrack(t1, e), e, FALSE)
  IN [t2 EXCEPT !.timer_active = FALSE, !.timer_deadline = 0]

\* Mutant: a request that could not be posted is dropped.
onTimerTriggered_dropped(t, e, post_ok) ==
  LET t2 == maybeBumpStats(updateShouldTrack(t, e), e, FALSE)
  IN [t2 EXCEPT !.timer_active = TRUE,
                !.timer_deadline = e.now + t.tracer_period]

\* Mutant: the tick does not end with maybeBumpStats().
onTimerTriggered_noBump(t, e, post_ok) ==
  LET t1 == IF post_ok THEN t
            ELSE onSyncSequencerRequestResponse(t, e, "NOBUFS", LSN_INVALID, NoAttrs)
      t2 == updateShouldTrack(t1, e)
  IN [t2 EXCEPT !.timer_active = TRUE,
                !.timer_deadline = e.now + t.tracer_period]

\* post_ok: postRequest returned 0.
onTimerTriggered(t, e, post_ok) ==
  LET t1 == IF post_ok THEN t
            ELSE onSyncSequencerRequestResponse(t, e, "NOBUFS", LSN_INVALID, NoAttrs)
      t2 == maybeBumpStats(updateShouldTrack(t1, e), e, FALSE)
  IN [t2 EXCEPT !.timer_active = TRUE,
                !.timer_deadline = e.now + t.tracer_period]

\* -------------------------------------------------- sendSyncSequencerRequest
\* Mutant: a tick posts a second request after the first.
PostedRequests_twice(post_ok) == IF post_ok THEN 2 ELSE 0

\* The requests a call of sendSyncSequencerRequest() leaves with the
\* processor.
PostedRequests(post_ok) == IF post_ok THEN 1 ELSE 0

\* Mutant: the callback holds a plain pointer to the tracer.
CompletionCallback_noWeakRef(t, e, c) ==
  onSyncSequencerRequestResponse(t, e, c.st, c.next_lsn, c.attrs)

\* The callback of the request: if (auto ptr = weak_ref.get()) ...
CompletionCallback(t, e, c) ==
  IF t.alive
  THEN onSyncSequencerRequestResponse(t, e, c.st, c.next_lsn, c.attrs)
  ELSE t

\* ---------------------------------------------------------------- destructor
\* Mutant: the destructor does not settle the counters.
Destructor_noCleanup(t, e) ==
  [t EXCEPT !.alive = FALSE, !.timer_active = FALSE, !.timer_deadline = 0]

Destructor(t, e) ==
  [maybeBumpStats(t, e, TRUE) EXCEPT
     !.alive = FALSE, !.timer_active = FALSE, !.timer_deadline = 0]


\* The lag the lag step of a completion uses (NoLag: the step is skipped).
CompletionLagInput(t, e, st, next_lsn, attrs) ==
  LagInput([t EXCEPT !.latest_tail_info =
              IF st = OK /\ attrs.has
              THEN [has |-> TRUE, timestamp |-> attrs.last_timestamp,
                    lsn_approx |-> TailLsnApprox(next_lsn, attrs)]
              ELSE @], e, st)

\* ------------------------------------------------------------- construction
\* The members the constructor does not name start with the values the class
\* declaration (ClientReadersFlowTracer.h) gives them: the reported state is
\* HEALTHY, the dwell timers are not running, there is no tail info and the
\* lag record is empty.  The first value of should_track_ is left open: the
\* first tick or owner callback sets it.
MemberDefaults(should_track) ==
  [timer_active |-> FALSE,
   timer_deadline |-> 0,
   should_track |-> should_track,
   sample_counter |-> 0,
   capacity |-> 0,
   time_lag_record |-> <<>>,
   obs |-> NoObs,
   latest_tail_info |-> [has |-> FALSE, timestamp |-> 0, lsn_approx |-> LSN_INVALID],
   last_sync_seq_request_result |-> OK,
   last_next_lsn_to_deliver |-> LSN_INVALID,
   last_time_stuck |-> TimePointMax,
   last_time_lagging |-> TimePointMax,
   last_reported_state |-> Healthy,
   stats |-> [c \in Counters |-> 0]]

\* The member initialisers of the constructor: params_{0ms, push_samples,
\* ignore_overload}; the tracer a read stream builds pushes samples, its
\* tracer_ignoring_overload_ does not.
NewTracer(ignore_overload, should_track) ==
  [alive |-> TRUE,
   ignore_overload |-> ignore_overload,
   push_samples |-> ~ignore_overload,
   tracer_period |-> 0] @@ MemberDefaults(should_track)

\* The constructor: the members' initial values, then onSettingsUpdated().
Constructor(ignore_overload, should_track, e) ==
  Settled(onSettingsUpdated(NewTracer(ignore_overload, should_track), e))

\* ------------------------------------------------------------------- inputs
\* The settings the worker can have: the periods, group counts and group
\* sizes are the given sets; the stuck threshold and the slope threshold
\* (slope_num / slope_den) do not change during a run.
SettingsOf(periods, groups, sizes, thresholds, slope_num, slope_den) ==
  [tracer_period : periods,
   num_groups : groups,
   group_size : sizes,
   reader_stuck_threshold : thresholds,
   slope_num : {slope_num},
   slope_den : {slope_den}]

\* What a completion carries: the status, next_lsn and the tail attributes
\* (tail timestamps from the given set).
CompletionsOf(timestamps, released, next_lsns) ==
  [st : {OK}, next_lsn : next_lsns,
   attrs : [has : {TRUE}, last_released_real_lsn : released,
            last_timestamp : timestamps]]
  \cup [st : {OK}, next_lsn : next_lsns, attrs : {NoAttrs}]
  \cup [st : {"TIMEDOUT"}, next_lsn : {LSN_INVALID}, attrs : {NoAttrs}]

\* op: the handler; prev_state: the state reported before it ran; lag_input:
\* the lag its lag step used; opened, left: what it did to the lag record;
\* traced: how often it came to trace a sample and to bump the histograms;
\* pushed: how often it went on to publish a sample.
EmitObs(op, prev_state, lag_input, obs) ==
  [op |-> op, prev_state |-> prev_state, lag_input |-> lag_input,
   opened |-> obs.opened, left |-> obs.left, traced |-> obs.traced,
   pushed |-> obs.pushed]

Emit(op, prev_state, lag_input) == EmitObs(op, prev_state, lag_input, NoObs)
NoOut == Emit("none", Healthy, NoLag)

\* The instantaneously-stuck condition on the tracer's current fields.
InstantStuck(t, e) ==
  /\ t.should_track
  /\ \/ t.last_sync_seq_request_result # OK
     \/ e.next_lsn_to_deliver
          <= Min(IF t.latest_tail_info.has THEN t.latest_tail_info.lsn_approx
                 ELSE LSN_INVALID, e.until_lsn)

\* What updateTimeStuck samples at a completion: is_stuck, and whether the
\* reader advanced since the previous completion.
SampledStuck(t, e, st, next_lsn, attrs) ==
  /\ t.should_track
  /\ \/ st # OK
     \/ e.next_lsn_to_deliver
          <= Min(IF attrs.has THEN TailLsnApprox(next_lsn, attrs) ELSE LSN_INVALID,
                 e.until_lsn)

SampledProgress(t, e) == t.last_next_lsn_to_deliver # e.next_lsn_to_deliver

\* History of the stuck dwell of a tracer.
\* stuck_since: since when the instantaneously-stuck condition has held in
\*   every state (TimePointMax: it does not hold now);
\* last_unstuck: when a completion last sampled "not stuck" or an advance of
\*   the reader (0: never since the construction);
\* paused_at: the lag at which the gate last closed (NoLag: it had none);
\* lag_change: the sum, over the untracked intervals so far, of the lag at
\*   which the gate opened again minus the lag at which it had closed;
\* sampled: what the completions of a steady run (SpecSteady) sampled so far:
\*   where the reader was relative to the reported tail, and "lag" or "nolag"
\*   when the lag was positive or unknown.
NoHist ==
  [stuck_since |-> TimePointMax, last_unstuck |-> 0,
   paused_at |-> NoLag, lag_change |-> 0, sampled |-> {}]

\* unstuck: this step is a completion that sampled "not stuck" or an advance.
HistAfter(h, t, t2, e2, unstuck) ==
  [h EXCEPT
     !.stuck_since =
        IF ~InstantStuck(t2, e2) THEN TimePointMax
        ELSE IF h.stuck_since = TimePointMax THEN e2.now ELSE h.stuck_since,
     !.last_unstuck = IF unstuck THEN e2.now ELSE h.last_unstuck]

HistNext(unstuck) ==
  hist' = [i \in DOMAIN tr |->
             HistAfter(hist[i], tr[i], tr'[i], env', unstuck)]

CorrBounded(t) ==
  \A i \in 1..Len(t.time_lag_record) :
     /\ t.time_lag_record[i].time_lag_correction <= MaxCorr
     /\ t.time_lag_record[i].time_lag_correction >= 0 - MaxCorr

\* The ttl of a bucket that was decremented at 0 is followed MaxWrap steps
\* down from TtlModulus - 1.
WrapBounded(t) ==
  \A i \in 1..Len(t.time_lag_record) :
     \/ t.time_lag_record[i].ttl <= t.time_lag_record[i].opened_ttl
     \/ t.time_lag_record[i].ttl >= TtlModulus - MaxWrap

Bounded(t) == CorrBounded(t) /\ WrapBounded(t)

Alive == \E i \in DOMAIN tr : tr[i].alive

\* --------------------------------------------------------------------- Init
InitEnv(untils, settings) ==
  [now : {0},
   next_lsn_to_deliver : {1},
   until_lsn : untils,
   last_released : {LSN_INVALID},
   last_in_record_ts : {0},
   redelivery_timer_active : {FALSE},
   window_update_pending : {FALSE},
   overloaded : BOOLEAN,
   settings : settings]

\* One tracer, with or without ignore_overload (a primary or a shadow taken
\* alone).
InitOne(ids, untils, settings) ==
  /\ pub = NoPublisher
  /\ env \in InitEnv(untils, settings)
  /\ \E id \in ids, should_track \in BOOLEAN :
       tr = [i \in {id} |-> Constructor(id = Shadow, should_track, env)]
  /\ inflight = [i \in DOMAIN tr |-> 0]
  /\ out = NoOut
  /\ hist = [i \in DOMAIN tr |-> NoHist]

\* ------------------------------------------------------------------ actions
\* Time points are only compared with now: once the clock reads MaxTime, a
\* further unit of time moves every stored time point one unit into the past
\* instead (not below 0: anything that old is older than every threshold).
ShiftTime(p) == IF p = TimePointMax THEN p ELSE Max(p - 1, 0)

AdvanceTime ==
  /\ UNCHANGED pub
  /\ IF env.now < MaxTime
     THEN /\ env' = [env EXCEPT !.now = @ + 1]
          /\ tr' = tr
     ELSE /\ env' = env
          /\ tr' = [i \in DOMAIN tr |->
                      [tr[i] EXCEPT !.timer_deadline = Max(@ - 1, 0),
                                    !.last_time_stuck = ShiftTime(@),
                                    !.last_time_lagging = ShiftTime(@)]]
  /\ out' = NoOut
  /\ hist' = [i \in DOMAIN tr |->
               IF env.now < MaxTime THEN hist[i]
               ELSE [hist[i] EXCEPT !.stuck_since = ShiftTime(@),
                                    !.last_unstuck = Max(@ - 1, 0)]]
  /\ UNCHANGED inflight

\* The owner delivers a record to the client.
DeliverRecord ==
  /\ UNCHANGED pub
  /\ Alive
  /\ env.next_lsn_to_deliver <= MaxLsn
  /\ env.next_lsn_to_deliver <= env.until_lsn
  /\ \E ts \in 1..MaxRecordTs :
       /\ ts >= env.last_in_record_ts
       /\ env' = [env EXCEPT !.next_lsn_to_deliver = @ + 1,
                             !.last_in_record_ts = ts]
  /\ out' = NoOut
  /\ UNCHANGED <<tr, inflight>>
  /\ HistNext(FALSE)

\* The owner learns of a released record.
Release ==
  /\ UNCHANGED pub
  /\ Alive
  /\ env.last_released < MaxLsn
  /\ env' = [env EXCEPT !.last_released = @ + 1]
  /\ out' = NoOut
  /\ UNCHANGED <<tr, inflight>>
  /\ HistNext(FALSE)

\* The overload detector changes its answer.
OverloadChange ==
  /\ UNCHANGED pub
  /\ \E i \in DOMAIN tr : tr[i].alive /\ ~tr[i].ignore_overload
  /\ env' = [env EXCEPT !.overloaded = ~@]
  /\ out' = NoOut
  /\ UNCHANGED <<tr, inflight>>
  /\ HistNext(FALSE)

\* onRedeliveryTimerActive / onRedeliveryTimerInactive / onWindowUpdatePending
\* / onWindowUpdateSent: the owner's field changes, then every tracer
\* re-evaluates the gate.
OwnerCallback(e) ==
  /\ UNCHANGED pub
  /\ Alive
  /\ env' = e
  /\ tr' = [i \in DOMAIN tr |-> updateShouldTrack(tr[i], e)]
  /\ \A i \in DOMAIN tr : CorrBounded(tr'[i])
  /\ out' = NoOut
  /\ UNCHANGED inflight
  /\ HistNext(FALSE)

onRedeliveryTimerActive ==
  /\ ~env.redelivery_timer_active
  /\ OwnerCallback([env EXCEPT !.redelivery_timer_active = TRUE])

onRedeliveryTimerInactive ==
  /\ env.redelivery_timer_active
  /\ OwnerCallback([env EXCEPT !.redelivery_timer_active = FALSE])

onWindowUpdatePending ==
  /\ ~env.window_update_pending
  /\ OwnerCallback([env EXCEPT !.window_update_pending = TRUE])

onWindowUpdateSent ==
  /\ env.window_update_pending
  /\ OwnerCallback([env EXCEPT !.window_update_pending = FALSE])

\* The worker's settings change and every tracer's onSettingsUpdated() runs.
SettingsUpdated(settings) ==
  /\ UNCHANGED pub
  /\ Alive
  /\ \E s \in settings :
       /\ s # env.settings
       /\ s.reader_stuck_threshold = env.settings.reader_stuck_threshold
       /\ env' = [env EXCEPT !.settings = s]
  /\ tr' = [i \in DOMAIN tr |-> Settled(onSettingsUpdated(tr[i], env'))]
  /\ \E i \in DOMAIN tr :
       out' = EmitObs("settings", tr[i].last_reported_state, NoLag,
                      onSettingsUpdated(tr[i], env').obs)
  /\ UNCHANGED inflight
  /\ HistNext(FALSE)

\* The timer of tracer i fires.  post_ok: the processor accepted the request.
TimerTriggered(i, max_inflight) ==
  /\ UNCHANGED pub
  /\ tr[i].alive
  /\ tr[i].timer_active
  /\ tr[i].timer_deadline <= env.now
  /\ \E post_ok \in BOOLEAN :
       /\ post_ok => inflight[i] < max_inflight
       /\ tr' = [tr EXCEPT ![i] = Settled(onTimerTriggered(@, env, post_ok))]
       /\ inflight' = [inflight EXCEPT ![i] = @ + PostedRequests(post_ok)]
       /\ out' = EmitObs(IF post_ok THEN "tick" ELSE "tick_nobufs",
                         tr[i].last_reported_state,
                         IF post_ok THEN NoLag
                         ELSE CompletionLagInput(tr[i], env, "NOBUFS",
                                                 LSN_INVALID, NoAttrs),
                         onTimerTriggered(tr[i], env, post_ok).obs)
       /\ UNCHANGED env
       /\ HistNext(~post_ok
                   /\ (SampledProgress(tr[i], env)
                       \/ ~SampledStuck(tr[i], env, "NOBUFS", LSN_INVALID, NoAttrs)))
  /\ Bounded(tr'[i])

\* A tail query of tracer i completes: the callback of the request runs.
Completion(i, completions) ==
  /\ UNCHANGED pub
  /\ inflight[i] > 0
  /\ inflight' = [inflight EXCEPT ![i] = @ - 1]
  /\ UNCHANGED env
  /\ \E c \in completions :
       /\ tr' = [tr EXCEPT ![i] = Settled(CompletionCallback(@, env, c))]
       /\ Bounded(tr'[i])
       /\ IF tr[i].alive
          THEN /\ out' = EmitObs("completion", tr[i].last_reported_state,
                                 CompletionLagInput(tr[i], env, c.st, c.next_lsn, c.attrs),
                                 CompletionCallback(tr[i], env, c).obs)
               /\ HistNext(SampledProgress(tr[i], env)
                           \/ ~SampledStuck(tr[i], env, c.st, c.next_lsn, c.attrs))
          ELSE /\ out' = Emit("dropped", tr[i].last_reported_state, NoLag)
               /\ hist' = hist

\* ------------------------------------------------------ two runs side by side
\* The completion of a successful tail query that makes the lag `lag`.
LagCompletion(e, lag) ==
  [st |-> OK, next_lsn |-> 1,
   attrs |-> [has |-> TRUE, last_released_real_lsn |-> MaxLsn + 1,
              last_timestamp |-> e.last_in_record_ts + lag]]

\* The lag changes of the untracked intervals of the interrupted run so far.
PausedLagChange == hist[Interrupted].lag_change

\* A tick both runs track: the reference run samples `lag`, the interrupted
\* run `lag` plus the lag changes of its untracked intervals.
PairTracked ==
  /\ UNCHANGED pub
  /\ env.last_in_record_ts > 0
  /\ tr[Interrupted].should_track
  /\ \E lag \in 0..(MaxTs - MaxRecordTs) :
       /\ lag + PausedLagChange \in 0..(MaxTs - MaxRecordTs)
       /\ tr' = [i \in DOMAIN tr |->
                   Settled(CompletionCallback(
                     tr[i], env,
                     LagCompletion(env, IF i = Interrupted
                                          THEN lag + PausedLagChange ELSE lag)))]
       /\ out' = Emit("tracked", tr[Reference].last_reported_state, lag)
  /\ \A i \in DOMAIN tr : Bounded(tr'[i])
  /\ UNCHANGED <<env, inflight, hist>>

\* The gate of the interrupted run closes (a window update is pending).
PairPause ==
  /\ UNCHANGED pub
  /\ tr[Interrupted].should_track
  /\ estimateTimeLag(tr[Interrupted], env) # NoLag
  /\ tr' = [tr EXCEPT ![Interrupted] =
               updateShouldTrack(@, [env EXCEPT !.window_update_pending = TRUE])]
  /\ Bounded(tr'[Interrupted])
  /\ out' = Emit("pause", tr[Interrupted].last_reported_state, NoLag)
  /\ hist' = [hist EXCEPT ![Interrupted].paused_at =
                                estimateTimeLag(tr[Interrupted], env)]
  /\ UNCHANGED <<env, inflight>>

\* A tick of the untracked interval: only the interrupted run has it.
PairUntracked ==
  /\ UNCHANGED pub
  /\ env.last_in_record_ts > 0
  /\ ~tr[Interrupted].should_track
  /\ \E lag \in 0..(MaxTs - MaxRecordTs) :
       /\ tr' = [tr EXCEPT ![Interrupted] =
                   Settled(CompletionCallback(@, env, LagCompletion(env, lag)))]
       /\ out' = Emit("untracked", tr[Interrupted].last_reported_state, lag)
  /\ UNCHANGED <<env, inflight, hist>>

\* The gate of the interrupted run opens again.
PairResume ==
  /\ UNCHANGED pub
  /\ ~tr[Interrupted].should_track
  /\ tr' = [tr EXCEPT ![Interrupted] = updateShouldTrack(@, env)]
  /\ Bounded(tr'[Interrupted])
  /\ out' = Emit("resume", tr[Interrupted].last_reported_state, NoLag)
  /\ hist' = [hist EXCEPT ![Interrupted].lag_change =
                                @ + estimateTimeLag(tr[Interrupted], env)
                                  - hist[Interrupted].paused_at]
  /\ UNCHANGED <<env, inflight>>

\* The read stream and its tracers are destroyed.
Destroy ==
  /\ UNCHANGED pub
  /\ Alive
  /\ tr' = [i \in DOMAIN tr |-> Destructor(tr[i], env)]
  /\ \E i \in DOMAIN tr : out' = Emit("destroy", tr[i].last_reported_state, NoLag)
  /\ UNCHANGED <<env, inflight, hist>>

\* ------------------------------------------------------------ specifications
\* Spec: the life of one tracer, primary or shadow, whose timer runs with a
\* fixed period and whose lag record is one group of MaxGroupSize samples.
\* The reader advances, the gate opens and closes, the overload detector
\* changes its answer, tail queries succeed (with a tail behind or ahead of
\* the reader, with and without attributes), fail and are refused; the stream
\* is destroyed at any moment.
CoreSettings == SettingsOf({1}, {1}, {MaxGroupSize}, 1..MaxThreshold, 1, 2)
CoreCompletions == CompletionsOf({1, MaxTs}, {LSN_INVALID, MaxLsn + 1}, {1})

Init == InitOne({Primary, Shadow}, {MaxLsn, LSN_MAX}, CoreSettings)

Next ==
  \/ AdvanceTime
  \/ DeliverRecord
  \/ OverloadChange
  \/ onRedeliveryTimerActive
  \/ onRedeliveryTimerInactive
  \/ onWindowUpdatePending
  \/ onWindowUpdateSent
  \/ \E i \in DOMAIN tr : TimerTriggered(i, 1)
  \/ \E i \in DOMAIN tr : Completion(i, CoreCompletions)
  \/ Destroy

Spec == Init /\ [][Next]_vars

\* SpecTimer: the timer and the tail queries of one primary tracer: the tick
\* period changes (0 stops the timer), up to MaxInflight queries are in
\* flight, completions arrive late and after the destruction; the owner
\* learns of released records.
TimerSettings == SettingsOf(0..MaxPeriod, {1}, {1}, 1..MaxThreshold, 1, 2)
TimerCompletions == CompletionsOf({1}, {LSN_INVALID, MaxLsn + 1}, {1})

InitTimer == InitOne({Primary}, {LSN_MAX}, TimerSettings)

NextTimer ==
  \/ AdvanceTime
  \/ DeliverRecord
  \/ Release
  \/ onWindowUpdatePending
  \/ onWindowUpdateSent
  \/ SettingsUpdated(TimerSettings)
  \/ \E i \in DOMAIN tr : TimerTriggered(i, MaxInflight)
  \/ \E i \in DOMAIN tr : Completion(i, TimerCompletions)
  \/ Destroy

SpecTimer == InitTimer /\ [][NextTimer]_vars

\* SpecLag: the lag record of a primary tracer whose timer runs with a fixed
\* period, for every group count and group size: the gate opens and closes
\* on window updates, the tail is ahead of the reader and the lag takes every
\* value up to MaxTs - 1.
LagSettings == SettingsOf({1}, 1..MaxGroups, 1..MaxGroupSize, {1}, 1, 2)
LagCompletions == CompletionsOf(1..MaxTs, {MaxLsn + 1}, {1})

InitLag == InitOne({Primary}, {LSN_MAX}, LagSettings)

NextLag ==
  \/ AdvanceTime
  \/ DeliverRecord
  \/ onWindowUpdatePending
  \/ onWindowUpdateSent
  \/ \E i \in DOMAIN tr : TimerTriggered(i, 1)
  \/ \E i \in DOMAIN tr : Completion(i, LagCompletions)
  \/ Destroy

SpecLag == InitLag /\ [][NextLag]_vars

\* SpecResize: the lag record of a primary tracer while the settings change
\* the group count and the group size: buckets are opened, aged while the gate
\* is closed, evicted, overwritten and cut off by a smaller capacity.
ResizeSettings == SettingsOf({1}, 1..MaxGroups, 1..MaxGroupSize, {1}, 1, 2)
ResizeCompletions == CompletionsOf({1}, {LSN_INVALID}, {1})

InitResize == InitOne({Primary}, {LSN_MAX}, ResizeSettings)

NextResize ==
  \/ AdvanceTime
  \/ onWindowUpdatePending
  \/ onWindowUpdateSent
  \/ SettingsUpdated(ResizeSettings)
  \/ \E i \in DOMAIN tr : TimerTriggered(i, 1)
  \/ \E i \in DOMAIN tr : Completion(i, ResizeCompletions)
  \/ Destroy

SpecResize == InitResize /\ [][NextResize]_vars

\* SpecPair: two runs of one primary tracer on the same stream, for every
\* group count and group size.  Both sample the lag on the same tracked
\* ticks; the interrupted run also pauses, has ticks while it is paused, on
\* which its lag changes, and resumes.
PairSettings == SettingsOf({1}, 1..MaxGroups, 1..MaxGroupSize, {1}, 1, 2)

InitPair ==
  /\ pub = NoPublisher
  /\ env \in {e \in InitEnv({LSN_MAX}, PairSettings) : ~e.overloaded}
  /\ tr = [i \in {Reference, Interrupted} |-> Constructor(FALSE, TRUE, env)]
  /\ inflight = [i \in DOMAIN tr |-> 0]
  /\ out = NoOut
  /\ hist = [i \in DOMAIN tr |-> NoHist]

NextPair ==
  \/ DeliverRecord
  \/ PairTracked
  \/ PairPause
  \/ PairUntracked
  \/ PairResume

SpecPair == InitPair /\ [][NextPair]_vars

\* SpecPressure: the life of one tracer, primary or shadow, of a stream under
\* back-pressure: the owner's window update is pending whenever the timer
\* fires and whenever a tail query completes (between two of them the window
\* update may be sent and become pending again).  Everything else is as in
\* Spec, with a moving tail (until_lsn = LSN_MAX) as well as a fixed one.
PendingTick(i) ==
  /\ env.window_update_pending
  /\ TimerTriggered(i, 1)

PendingCompletion(i) ==
  /\ env.window_update_pending
  /\ Completion(i, CoreCompletions)

InitPressure == InitOne({Primary, Shadow}, {MaxLsn, LSN_MAX}, CoreSettings)

NextPressure ==
  \/ AdvanceTime
  \/ DeliverRecord
  \/ OverloadChange
  \/ onRedeliveryTimerActive
  \/ onRedeliveryTimerInactive
  \/ onWindowUpdatePending
  \/ onWindowUpdateSent
  \/ \E i \in DOMAIN tr : PendingTick(i)
  \/ \E i \in DOMAIN tr : PendingCompletion(i)
  \/ Destroy

SpecPressure == InitPressure /\ [][NextPressure]_vars

\* SpecSteady: the steady runs of one primary tracer: the host is not
\* overloaded, no redelivery timer runs and no window update is pending, so
\* should_track_ is true from the first tick on; every tail query is posted
\* and completes with E::OK and tail attributes.  The reported tail is one
\* behind the reader's next_lsn_to_deliver, at it or one ahead of it; the
\* reader advances or stays.
SteadyCompletions(e) ==
  [st : {OK}, next_lsn : {1},
   attrs : [has : {TRUE},
            last_released_real_lsn :
              (e.next_lsn_to_deliver - 1)..(e.next_lsn_to_deliver + 1),
            last_timestamp : {1, MaxTs}]]

\* Where the reader is relative to the tail a completion reports.
TailRelation(e, c) ==
  LET tail == TailLsnApprox(c.next_lsn, c.attrs) IN
  IF e.next_lsn_to_deliver < tail THEN "behind"
  ELSE IF e.next_lsn_to_deliver = tail THEN "at"
  ELSE "past"

SteadySample(t, e, c) ==
  LET lag == CompletionLagInput(t, e, c.st, c.next_lsn, c.attrs) IN
  {TailRelation(e, c)}
    \cup (IF lag = NoLag THEN {"nolag"} ELSE IF lag > 0 THEN {"lag"} ELSE {})

\* The timer fires and the processor accepts the request.
SteadyTick(i) ==
  /\ TimerTriggered(i, MaxInflight)
  /\ out'.op = "tick"

SteadyCompletion(i) ==
  /\ UNCHANGED pub
  /\ tr[i].alive
  /\ inflight[i] > 0
  /\ inflight' = [inflight EXCEPT ![i] = @ - 1]
  /\ UNCHANGED env
  /\ \E c \in SteadyCompletions(env) :
       /\ tr' = [tr EXCEPT ![i] = Settled(CompletionCallback(@, env, c))]
       /\ Bounded(tr'[i])
       /\ out' = EmitObs("completion", tr[i].last_reported_state,
                         CompletionLagInput(tr[i], env, c.st, c.next_lsn, c.attrs),
                         CompletionCallback(tr[i], env, c).obs)
       /\ hist' = [hist EXCEPT ![i] =
                     [HistAfter(@, tr[i], tr'[i], env,
                                SampledProgress(tr[i], env)
                                \/ ~SampledStuck(tr[i], env, c.st, c.next_lsn, c.attrs))
                        EXCEPT !.sampled = @ \cup SteadySample(tr[i], env, c)]]

InitSteady ==
  /\ InitOne({Primary}, {MaxLsn, LSN_MAX}, CoreSettings)
  /\ ~env.overloaded

NextSteady ==
  \/ AdvanceTime
  \/ DeliverRecord
  \/ \E i \in DOMAIN tr : SteadyTick(i)
  \/ \E i \in DOMAIN tr : SteadyCompletion(i)
  \/ Destroy

SpecSteady == InitSteady /\ [][NextSteady]_vars

\* SpecGrowth: the lagging-growth run of one primary tracer, in units of half a
\* second: the tick period is 1 s, the lag record has 3 groups of 4 samples,
\* the slope threshold is 0.1 and until_lsn is LSN_MAX.  The reader has
\* delivered one record and stays behind the tail; should_track_ is true from
\* the first tick on; every tail query is posted and succeeds, and the lag
\* each completion samples is half a second above the lag of the one before
\* (half a second for the first), up to MaxGrowth half seconds.
GrowthSettings == SettingsOf({2}, {3}, {4}, 1..MaxThreshold, 1, 10)

InitGrowth ==
  /\ pub = NoPublisher
  /\ env \in {[e EXCEPT !.next_lsn_to_deliver = 2, !.last_in_record_ts = 1] :
                e \in {x \in InitEnv({LSN_MAX}, GrowthSettings) : ~x.overloaded}}
  /\ \E should_track \in BOOLEAN :
       tr = [i \in {Primary} |-> Constructor(FALSE, should_track, env)]
  /\ inflight = [i \in DOMAIN tr |-> 0]
  /\ out = NoOut
  /\ hist = [i \in DOMAIN tr |-> NoHist]

\* The lag the next completion of the run samples.
GrowthLag(t, e) ==
  (IF estimateTimeLag(t, e) = NoLag THEN 0 ELSE estimateTimeLag(t, e)) + 1

GrowthCompletion(i) ==
  /\ UNCHANGED pub
  /\ tr[i].alive
  /\ inflight[i] > 0
  /\ GrowthLag(tr[i], env) <= MaxGrowth
  /\ inflight' = [inflight EXCEPT ![i] = @ - 1]
  /\ UNCHANGED env
  /\ LET c == LagCompletion(env, GrowthLag(tr[i], env)) IN
       /\ tr' = [tr EXCEPT ![i] = Settled(CompletionCallback(@, env, c))]
       /\ out' = EmitObs("completion", tr[i].last_reported_state,
                         CompletionLagInput(tr[i], env, c.st, c.next_lsn, c.attrs),
                         CompletionCallback(tr[i], env, c).obs)
       /\ HistNext(SampledProgress(tr[i], env)
                   \/ ~SampledStuck(tr[i], env, c.st, c.next_lsn, c.attrs))

NextGrowth ==
  \/ AdvanceTime
  \/ \E i \in DOMAIN tr : SteadyTick(i)
  \/ \E i \in DOMAIN tr : GrowthCompletion(i)
  \/ Destroy

SpecGrowth == InitGrowth /\ [][NextGrowth]_vars

\* The timer of tracer i is active and has expired: its callback can run.
TickDue(i) ==
  tr[i].alive /\ tr[i].timer_active /\ tr[i].timer_deadline <= env.now

\* The last step was a tick of the timer.
Ticked == out.op \in {"tick", "tick_nobufs"}

\* SpecTimerFair: SpecTimer on a worker whose event loop keeps running: its
\* clock advances (weak fairness of AdvanceTime), and a timer that has
\* expired and stays active has its callback run (weak fairness of the tick,
\* written out with TickDue as its enabling condition: the tick is either
\* not due infinitely often or happens infinitely often).
SpecTimerFair ==
  /\ SpecTimer
  /\ WF_vars(AdvanceTime)
  /\ ([]<>~TickDue(Primary) \/ []<>Ticked)

\* SpecCadence: the cadence of the lag record of a primary tracer for every
\* group size, 0 included: the gate opens and closes on window updates, the
\* reader starts past the tail of an empty log and falls behind it, queries
\* fail and are refused.
CadenceSettings == SettingsOf({1}, {MaxGroups}, 0..MaxGroupSize, {1}, 1, 2)

InitCadence == InitOne({Primary}, {LSN_MAX}, CadenceSettings)

NextCadence ==
  \/ AdvanceTime
  \/ DeliverRecord
  \/ onWindowUpdatePending
  \/ onWindowUpdateSent
  \/ \E i \in DOMAIN tr : TimerTriggered(i, 1)
  \/ \E i \in DOMAIN tr : Completion(i, CoreCompletions)
  \/ Destroy

SpecCadence == InitCadence /\ [][NextCadence]_vars

\* SpecWindow: the slope test of a primary tracer with one group of
\* MaxGroupSize samples and slope threshold 1: the lag takes every value up
\* to MaxTs - 1, the gate opens and closes on window updates.
WindowSettings == SettingsOf({1}, {1}, {MaxGroupSize}, {1}, 1, 1)

InitWindow == InitOne({Primary}, {LSN_MAX}, WindowSettings)

NextWindow ==
  \/ AdvanceTime
  \/ DeliverRecord
  \/ onWindowUpdatePending
  \/ onWindowUpdateSent
  \/ \E i \in DOMAIN tr : TimerTriggered(i, 1)
  \/ \E i \in DOMAIN tr : Completion(i, LagCompletions)
  \/ Destroy

SpecWindow == InitWindow /\ [][NextWindow]_vars

\* ------------------------------------------------- a tracer with its shadow
\* tracer_ignoring_overload_ of a tracer that has none.
NoTracer == "none"

\* The tracers a call of the constructor builds: the tracer itself and, if
\* it does not ignore overload, its tracer_ignoring_overload_, built by the
\* same constructor with ignore_overload = true.  calls counts the owner
\* callbacks the tracer was handed in the last step that delivered one.
RECURSIVE ConstructedTracers(_, _, _)
ConstructedTracers(ignore_overload, should_track, e) ==
  LET id == IF ignore_overload THEN Shadow ELSE Primary
      own == Constructor(ignore_overload, should_track[id], e)
  IN IF ~ignore_overload
     THEN (id :> (own @@ [tracer_ignoring_overload |-> Shadow, calls |-> 0]))
            @@ ConstructedTracers(TRUE, should_track, e)
     ELSE id :> (own @@ [tracer_ignoring_overload |-> NoTracer, calls |-> 0])

\* The tracer the read stream holds.
OwnersTracer == IF Primary \in DOMAIN tr THEN Primary ELSE Shadow

\* Mutant: the callback is not passed on to tracer_ignoring_overload_.
OwnerCallbackOf_noShadow(trs, i, e) ==
  [trs EXCEPT ![i] = [updateShouldTrack(@, e) EXCEPT !.calls = @ + 1]]

\* onRedeliveryTimerActive / onRedeliveryTimerInactive / onWindowUpdatePending
\* / onWindowUpdateSent of tracer i: updateShouldTrack(), then the same
\* callback of its tracer_ignoring_overload_.
RECURSIVE OwnerCallbackOf(_, _, _)
OwnerCallbackOf(trs, i, e) ==
  LET own == [trs EXCEPT ![i] = [updateShouldTrack(@, e) EXCEPT !.calls = @ + 1]]
      shadow == trs[i].tracer_ignoring_overload
  IN IF shadow # NoTracer THEN OwnerCallbackOf(own, shadow, e) ELSE own

\* onSettingsUpdated of tracer i, which ends with onSettingsUpdated of its
\* tracer_ignoring_overload_.
RECURSIVE SettingsUpdatedOf(_, _, _)
SettingsUpdatedOf(trs, i, e) ==
  LET own == [trs EXCEPT ![i] = [Settled(onSettingsUpdated(@, e))
                                   EXCEPT !.calls = @ + 1]]
      shadow == trs[i].tracer_ignoring_overload
  IN IF shadow # NoTracer THEN SettingsUpdatedOf(own, shadow, e) ELSE own

\* The read stream changes its redelivery timer or its window update and
\* calls the callback of its tracer.
OwnedCallback ==
  /\ UNCHANGED pub
  /\ Alive
  /\ \E e \in {[env EXCEPT !.redelivery_timer_active = ~@],
               [env EXCEPT !.window_update_pending = ~@]} :
       /\ env' = e
       /\ tr' = OwnerCallbackOf([i \in DOMAIN tr |-> [tr[i] EXCEPT !.calls = 0]],
                                OwnersTracer, e)
  /\ \A i \in DOMAIN tr : CorrBounded(tr'[i])
  /\ out' = Emit("callback", tr[OwnersTracer].last_reported_state, NoLag)
  /\ UNCHANGED inflight
  /\ HistNext(FALSE)

\* The worker's settings change and onSettingsUpdated() of the read stream's
\* tracer runs.
OwnedSettingsUpdated(settings) ==
  /\ UNCHANGED pub
  /\ Alive
  /\ \E s \in settings :
       /\ s # env.settings
       /\ env' = [env EXCEPT !.settings = s]
  /\ tr' = SettingsUpdatedOf([i \in DOMAIN tr |-> [tr[i] EXCEPT !.calls = 0]],
                             OwnersTracer, env')
  /\ out' = EmitObs("settings", tr[OwnersTracer].last_reported_state, NoLag,
                    onSettingsUpdated(tr[OwnersTracer], env').obs)
  /\ UNCHANGED inflight
  /\ HistNext(FALSE)

\* SpecShadow: the tracer of a read stream together with the tracers its
\* constructor builds.  The read stream's callbacks and the settings updates
\* reach the tracers through the tracer the read stream holds; every tracer
\* has its own timer, whose ticks post a tail query or run the handler of a
\* refused one (no query completes); the overload detector changes its
\* answer; the settings change the group count.
ShadowSettings == SettingsOf({1}, 1..MaxGroups, {1}, {1}, 1, 2)

InitShadow ==
  /\ pub = NoPublisher
  /\ env \in InitEnv({LSN_MAX}, ShadowSettings)
  /\ \E ignore_overload \in BOOLEAN, should_track \in [{Primary, Shadow} -> BOOLEAN] :
       tr = ConstructedTracers(ignore_overload, should_track, env)
  /\ inflight = [i \in DOMAIN tr |-> 0]
  /\ out = NoOut
  /\ hist = [i \in DOMAIN tr |-> NoHist]

NextShadow ==
  \/ AdvanceTime
  \/ OverloadChange
  \/ OwnedCallback
  \/ OwnedSettingsUpdated(ShadowSettings)
  \/ \E i \in DOMAIN tr : TimerTriggered(i, 1)
  \/ Destroy

SpecShadow == InitShadow /\ [][NextShadow]_vars

\* SpecLatch: the tail info of a primary tracer on a worker that is never
\* overloaded.  The sequencer answers with next_lsn 1 or MaxLsn + 1, with
\* attributes that hold a last released real lsn (MaxLsn + 2) or none, or
\* without attributes; queries time out and are refused.
LatchCompletions ==
  CompletionsOf({1, MaxTs}, {LSN_INVALID, MaxLsn + 2}, {1, MaxLsn + 1})

InitLatch ==
  /\ InitOne({Primary}, {LSN_MAX}, CoreSettings)
  /\ ~env.overloaded

NextLatch ==
  \/ AdvanceTime
  \/ DeliverRecord
  \/ \E i \in DOMAIN tr : TimerTriggered(i, 1)
  \/ \E i \in DOMAIN tr : Completion(i, LatchCompletions)
  \/ Destroy

SpecLatch == InitLatch /\ [][NextLatch]_vars

\* ------------------------------------------------ NodesConfigurationPublisher
\* The threads that call publish(): the one that runs the constructor and
\* one per subscription.
Constructing == "constructor"
Subscriptions == {"settings", "server_config", "ncm"}
Threads == {Constructing} \cup Subscriptions
NoThread == "none"

\* A nodes configuration is known by its pointer: the source it was derived
\* from and the version of that source.  NoConfig is the null pointer.
View(source, version) == [source |-> source, version |-> version]
NoConfig == View("none", 0)

PublisherSettings ==
  [enable_nodes_configuration_manager : BOOLEAN,
   use_nodes_configuration_manager_nodes_configuration : BOOLEAN]

\* Mutant: one of the two settings is enough to select the manager.
from_ncm_either(settings) ==
  settings.enable_nodes_configuration_manager
    \/ settings.use_nodes_configuration_manager_nodes_configuration

from_ncm(settings) ==
  settings.enable_nodes_configuration_manager
    /\ settings.use_nodes_configuration_manager_nodes_configuration

\* Mutant: publish() does not take the mutex.
MutexFree_noLock(p) == TRUE

\* std::lock_guard lock(mutex_) can be taken.
MutexFree(p) == p.mutex = NoThread

\* A thread outside publish(); rv: how its last call ended.
Idle ==
  [pc |-> "idle", settings |-> <<>>, ncm_nc |-> NoConfig,
   server_config_nc |-> NoConfig, rv |-> "none"]

\* The last publish() call that returned: what it read, how it ended, the
\* configuration that was published when it compared, and how the call
\* before it ended if that one had read the same.  None has returned.
NoCall == [Idle EXCEPT !.pc = "none"] @@ [before |-> NoConfig, again |-> "none"]

\* The record of the call of thread k that returns with result rv.
Returned(k, rv) ==
  LET c == pub.call[k]
      same == /\ pub.last.settings = c.settings
              /\ pub.last.ncm_nc = c.ncm_nc
              /\ pub.last.server_config_nc = c.server_config_nc
  IN  [c EXCEPT !.pc = k, !.rv = rv]
        @@ [before |-> pub.nodes_configuration,
            again |-> IF same THEN pub.last.rv ELSE "none"]

\* The state when the constructor has subscribed and is about to do the
\* initial publishing: nothing is published yet.
InitPublisher ==
  /\ env = <<>>
  /\ tr = <<>>
  /\ inflight = <<>>
  /\ out = NoOut
  /\ hist = <<>>
  /\ \E settings \in PublisherSettings :
       pub = [settings |-> settings,
              ncm_nc |-> View("ncm", 1),
              server_config_nc |-> View("server_config", 1),
              nodes_configuration |-> NoConfig,
              mutex |-> NoThread,
              call |-> [k \in Threads |->
                          IF k = Constructing
                          THEN [Idle EXCEPT !.pc = "notified"] ELSE Idle],
              returned |-> NoThread,
              waited |-> FALSE,
              install_failed |-> FALSE,
              last |-> NoCall]

\* The locals of the call that returned in the step before are gone.
Forget(p) ==
  IF pub.returned = NoThread THEN p
  ELSE [p EXCEPT !.call[pub.returned] =
          [Idle EXCEPT !.pc = p.call[pub.returned].pc]]

\* Thread k goes from pc `from` to the next step of publish(); returned: the
\* thread whose call returns in this step; waited: some caller has found the
\* mutex taken.
PublisherStep(k, from, p) ==
  /\ pub.call[k].pc = from
  /\ pub' = [Forget(p) EXCEPT
               !.returned = IF p.call[k].pc = "idle" /\ from # "idle"
                            THEN k ELSE NoThread,
               !.waited = @ \/ (p.call[k].pc = "notified"
                                /\ pub.mutex # NoThread)]
  /\ UNCHANGED <<env, tr, inflight, out, hist>>

\* A source changes and its subscription calls publish().
SettingsChange ==
  \E settings \in PublisherSettings :
    /\ settings # pub.settings
    /\ PublisherStep("settings", "idle",
                     [pub EXCEPT !.settings = settings,
                                 !.call["settings"].pc = "notified"])

ServerConfigChange ==
  /\ pub.server_config_nc.version < MaxVersion
  /\ PublisherStep("server_config", "idle",
                   [pub EXCEPT !.server_config_nc.version = @ + 1,
                               !.call["server_config"].pc = "notified"])

NcmChange ==
  /\ pub.ncm_nc.version < MaxVersion
  /\ PublisherStep("ncm", "idle",
                   [pub EXCEPT !.ncm_nc.version = @ + 1,
                               !.call["ncm"].pc = "notified"])

\* publish(), statement by statement.
Lock(k) ==
  /\ MutexFree(pub)
  /\ PublisherStep(k, "notified",
                   [pub EXCEPT !.mutex = k, !.call[k].pc = "locked"])

ReadSettings(k) ==
  PublisherStep(k, "locked",
                [pub EXCEPT !.call[k].settings = pub.settings,
                            !.call[k].pc = "settings_read"])

ReadNcm(k) ==
  PublisherStep(k, "settings_read",
                [pub EXCEPT !.call[k].ncm_nc = pub.ncm_nc,
                            !.call[k].pc = "ncm_read"])

ReadServerConfig(k) ==
  PublisherStep(k, "ncm_read",
                [pub EXCEPT !.call[k].server_config_nc = pub.server_config_nc,
                            !.call[k].pc = "sources_read"])

\* Mutant: the configuration is installed without the comparison.
Install_always(k) ==
  /\ pub.call[k].pc = "sources_read"
  /\ LET c == pub.call[k]
         nodes_configuration_to_publish ==
           IF from_ncm(c.settings) THEN c.ncm_nc ELSE c.server_config_nc
     IN  \E rv \in {0, -1} :
           PublisherStep(k, "sources_read",
             [pub EXCEPT
                !.nodes_configuration =
                   IF rv = 0 THEN nodes_configuration_to_publish ELSE @,
                !.install_failed = @ \/ rv # 0,
                !.mutex = NoThread,
                !.call[k].pc = "idle",
                !.call[k].rv = IF rv = 0 THEN "ok" ELSE "failed",
                !.last = Returned(k, IF rv = 0 THEN "ok" ELSE "failed")])

\* Mutant: a failed update leaves the new configuration published.
Install_halfway(k) ==
  /\ pub.call[k].pc = "sources_read"
  /\ LET c == pub.call[k]
         nodes_configuration_to_publish ==
           IF from_ncm(c.settings) THEN c.ncm_nc ELSE c.server_config_nc
     IN
     IF pub.nodes_configuration # nodes_configuration_to_publish
     THEN \E rv \in {0, -1} :
            PublisherStep(k, "sources_read",
              [pub EXCEPT
                 !.nodes_configuration = nodes_configuration_to_publish,
                 !.install_failed = @ \/ rv # 0,
                 !.mutex = NoThread,
                 !.call[k].pc = "idle",
                 !.call[k].rv = IF rv = 0 THEN "ok" ELSE "failed",
                 !.last = Returned(k, IF rv = 0 THEN "ok" ELSE "failed")])
     ELSE PublisherStep(k, "sources_read",
            [pub EXCEPT !.mutex = NoThread,
                        !.call[k].pc = "idle",
                        !.call[k].rv = "skipped",
                        !.last = Returned(k, "skipped")])

\* The comparison with the published configuration, the update (rv: its
\* result) and the release of the mutex at the end of the call.
Install(k) ==
  /\ pub.call[k].pc = "sources_read"
  /\ LET c == pub.call[k]
         nodes_configuration_to_publish ==
           IF from_ncm(c.settings) THEN c.ncm_nc ELSE c.server_config_nc
     IN
     IF pub.nodes_configuration # nodes_configuration_to_publish
     THEN \E rv \in {0, -1} :
            PublisherStep(k, "sources_read",
              [pub EXCEPT
                 !.nodes_configuration =
                    IF rv = 0 THEN nodes_configuration_to_publish ELSE @,
                 !.install_failed = @ \/ rv # 0,
                 !.mutex = NoThread,
                 !.call[k].pc = "idle",
                 !.call[k].rv = IF rv = 0 THEN "ok" ELSE "failed",
                 !.last = Returned(k, IF rv = 0 THEN "ok" ELSE "failed")])
     ELSE PublisherStep(k, "sources_read",
            [pub EXCEPT !.mutex = NoThread,
                        !.call[k].pc = "idle",
                        !.call[k].rv = "skipped",
                        !.last = Returned(k, "skipped")])

NextPublisher ==
  \/ SettingsChange
  \/ ServerConfigChange
  \/ NcmChange
  \/ \E k \in Threads : Lock(k)
  \/ \E k \in Threads : ReadSettings(k)
  \/ \E k \in Threads : ReadNcm(k)
  \/ \E k \in Threads : ReadServerConfig(k)
  \/ \E k \in Threads : Install(k)

SpecPublisher == InitPublisher /\ [][NextPublisher]_vars

\* ---------------------------------------------------------------- SafetyAPI
\* The clusters of the tests DrainWithExpand and DrainWithSetWeight: nodes
\* 0 .. num_nodes - 1 with num_shards shards each, the nodes that store the
\* metadata logs with their replication factor, and the replication factor
\* of the data log, whose nodeset includes all nodes.
ShardID(node, shard) == <<node, shard>>

\* Mutant: the data log of DrainWithExpand is written with three copies.
DrainWithExpand_threeCopies ==
  [test |-> "DrainWithExpand", num_nodes |-> 3, num_shards |-> 2,
   metadata_nodes |-> {0, 2}, metadata_replication |-> 2,
   replicationFactor |-> 3]

DrainWithExpand ==
  [test |-> "DrainWithExpand", num_nodes |-> 3, num_shards |-> 2,
   metadata_nodes |-> {0, 2}, metadata_replication |-> 2,
   replicationFactor |-> 2]

DrainWithSetWeight ==
  [test |-> "DrainWithSetWeight", num_nodes |-> 5, num_shards |-> 2,
   metadata_nodes |-> 0 .. 4, metadata_replication |-> 3,
   replicationFactor |-> 2]

Logs == {"metadata", "data"}

\* ClusterFactory::create for the test t.
Cluster(t) ==
  [test |-> t.test,
   num_nodes |-> t.num_nodes,
   created_nodes |-> t.num_nodes,
   num_shards |-> t.num_shards,
   storage_state |-> [n \in 0 .. t.num_nodes - 1 |-> "READ_WRITE"],
   nodeset |-> [log \in Logs |->
                  IF log = "metadata" THEN t.metadata_nodes
                  ELSE 0 .. t.num_nodes - 1],
   replication |-> [log \in Logs |->
                      IF log = "metadata" THEN t.metadata_replication
                      ELSE t.replicationFactor]]

\* The ShardSet of the loops of the tests: every shard of the nodes.
AllShardsOf(cluster, nodes) ==
  {ShardID(i, s) : i \in nodes, s \in 0 .. cluster.num_shards - 1}

\* SafetyChecker::checkImpact(shard_status, shards, {}, target_storage_state,
\* ...): the impacts of moving the shards to the target state.  A log can be
\* written while a copyset of its replication factor can be picked among
\* the writable nodes of its nodeset that have no shard in the set.
checkImpact(cluster, shards, target_storage_state) ==
  LET moved == {n \in DOMAIN cluster.storage_state :
                  \E s \in 0 .. cluster.num_shards - 1 :
                    ShardID(n, s) \in shards}
      writable(log) ==
        {n \in cluster.nodeset[log] :
           cluster.storage_state[n] = "READ_WRITE" /\ n \notin moved}
      CanPickCopyset(log) ==
        \E copyset \in SUBSET writable(log) :
          Cardinality(copyset) = cluster.replication[log]
  IN  IF /\ target_storage_state = "READ_ONLY"
         /\ \E log \in Logs : ~CanPickCopyset(log)
      THEN {"WRITE_AVAILABILITY_LOSS"}
      ELSE {}

InitSafety ==
  /\ \E t \in {DrainWithExpand, DrainWithSetWeight} : env = Cluster(t)
  /\ tr = <<>>
  /\ inflight = <<>>
  /\ out = NoOut
  /\ hist = <<>>
  /\ pub = NoPublisher

\* safety_checker.checkImpact(shard_status, shards, {}, READ_ONLY, ...) for
\* the shards of a set of nodes.
CheckImpact(nodes) ==
  /\ out' = [op |-> "checkImpact",
             shards |-> AllShardsOf(env, nodes),
             impact |-> checkImpact(env, AllShardsOf(env, nodes),
                                    "READ_ONLY")]
  /\ UNCHANGED <<env, tr, inflight, hist, pub>>

\* cluster->expand(num_nodes) doubles the cluster; the new nodes store no
\* metadata logs, and the data log gets a nodeset over all nodes or keeps
\* the one it has.
Expand ==
  /\ env.test = "DrainWithExpand"
  /\ env.num_nodes = env.created_nodes
  /\ \E nodeset \in {env.nodeset["data"], 0 .. 2 * env.num_nodes - 1} :
       env' = [env EXCEPT
                 !.num_nodes = 2 * @,
                 !.storage_state =
                    [n \in 0 .. 2 * env.num_nodes - 1 |->
                       IF n < env.num_nodes THEN env.storage_state[n]
                       ELSE "READ_WRITE"],
                 !.nodeset["data"] = nodeset]
  /\ out' = [op |-> "expand", shards |-> {}, impact |-> {}]
  /\ UNCHANGED <<tr, inflight, hist, pub>>

\* cluster->updateNodeAttributes(node, StorageState::READ_ONLY, 1).
UpdateNodeAttributes(node) ==
  /\ env.test = "DrainWithSetWeight"
  /\ env.storage_state[node] = "READ_WRITE"
  /\ env' = [env EXCEPT !.storage_state[node] = "READ_ONLY"]
  /\ out' = [op |-> "updateNodeAttributes", shards |-> {}, impact |-> {}]
  /\ UNCHANGED <<tr, inflight, hist, pub>>

NextSafety ==
  \/ \E nodes \in SUBSET DOMAIN env.storage_state : CheckImpact(nodes)
  \/ Expand
  \/ \E node \in DOMAIN env.storage_state : UpdateNodeAttributes(node)

SpecSafety == InitSafety /\ [][NextSafety]_vars

\* ------------------------------------------------------------------ claims
Handled == out.op \in {"tick", "tick_nobufs", "completion"}

\* C1: counter conservation.  Once a tracer is destroyed, its net contribution
\* (its +1 deltas minus its -1 deltas) to every counter of both families is 0.
CounterConservation ==
  \A i \in DOMAIN tr :
    ~tr[i].alive => \A c \in Counters : tr[i].stats[c] = 0

\* A tracer was destroyed while it reported a state other than HEALTHY.
CounterConservationWitness ==
  /\ out.op = "destroy"
  /\ out.prev_state # Healthy
  /\ \E i \in DOMAIN tr : ~tr[i].alive

\* C2: stuck dwell.  Whenever a tracer reports STUCK or
\* STUCK_WHILE_FAILING_SYNC_SEQ_REQ, last_time_stuck_ is set and at least
\* reader_stuck_threshold has passed since.
StuckDwell ==
  \A i \in DOMAIN tr :
    tr[i].last_reported_state \in {Stuck, StuckFailing}
      => /\ tr[i].last_time_stuck # TimePointMax
         /\ env.now - tr[i].last_time_stuck >= env.settings.reader_stuck_threshold

\* A handler moved the reported state from HEALTHY to a stuck state.
StuckDwellWitness ==
  /\ Handled
  /\ out.prev_state = Healthy
  /\ \E i \in DOMAIN tr : tr[i].last_reported_state \in {Stuck, StuckFailing}

\* A handler moved the reported state of a tracer from HEALTHY to STUCK.
HealthyToStuck(i) ==
  /\ Handled
  /\ out.prev_state = Healthy
  /\ tr[i].last_reported_state = Stuck

\* C3 as stated: continuous stuck condition.  The reported state goes from
\* HEALTHY to STUCK only if the instantaneously-stuck condition has held in
\* every state of the last reader_stuck_threshold.
ContinuousStuckCondition ==
  \A i \in DOMAIN tr :
    HealthyToStuck(i)
      => /\ hist[i].stuck_since # TimePointMax
         /\ env.now - hist[i].stuck_since >= env.settings.reader_stuck_threshold

\* C3: sampled stuck condition.  The reported state goes from HEALTHY to
\* STUCK only if last_time_stuck_ is set, reader_stuck_threshold has passed
\* since, and no completion of a tail query since then sampled the
\* instantaneously-stuck condition false or an advance of the reader.
SampledStuckCondition ==
  \A i \in DOMAIN tr :
    HealthyToStuck(i)
      => /\ tr[i].last_time_stuck # TimePointMax
         /\ env.now - tr[i].last_time_stuck >= env.settings.reader_stuck_threshold
         /\ hist[i].last_unstuck <= tr[i].last_time_stuck

\* HEALTHY became STUCK while the condition did not hold between two samples.
SampledStuckConditionWitness ==
  \E i \in DOMAIN tr :
    /\ HealthyToStuck(i)
    /\ hist[i].stuck_since = TimePointMax

\* C4 as stated: single-flight.  At most one tail query of a tracer is
\* outstanding.
SingleFlight == \A i \in DOMAIN tr : inflight[i] <= 1

\* C4: one query per tick.  The number of outstanding tail queries of a
\* tracer rises only on a timer tick whose request the processor accepted, and
\* then by exactly one; a tick does not wait for the queries of earlier ticks.
OneQueryPerTick ==
  [][\A i \in DOMAIN tr :
       inflight'[i] > inflight[i]
         => /\ out'.op = "tick"
            /\ inflight'[i] = inflight[i] + 1]_vars

\* A tick posted a query while the query of an earlier tick is outstanding.
OneQueryPerTickWitness ==
  /\ out.op = "tick"
  /\ \E i \in DOMAIN tr : inflight[i] = 2

\* C5: post-destruction safety.  A completion delivered after the tracer was
\* destroyed changes no field of the tracer (its counters included) and is
\* dropped; a completion delivered before, however many ticks after its
\* request, is applied as the response it carries.
PostDestructionSafety ==
  [][\A i \in DOMAIN tr :
       inflight'[i] < inflight[i]
         => IF tr[i].alive
            THEN /\ out'.op = "completion"
                 /\ \E c \in TimerCompletions :
                      tr'[i] = Settled(onSyncSequencerRequestResponse(
                                         tr[i], env, c.st, c.next_lsn, c.attrs))
            ELSE /\ tr'[i] = tr[i]
                 /\ out'.op = "dropped"]_vars

\* The completion of a query was dropped: its tracer was destroyed while its
\* stuck dwell timer was running.
PostDestructionSafetyWitness ==
  /\ out.op = "dropped"
  /\ out.prev_state = Healthy
  /\ \E i \in DOMAIN tr :
       /\ ~tr[i].alive
       /\ tr[i].last_time_stuck # TimePointMax

\* C6: fixed-tail exemption.  A tracer whose stream reads up to a finite
\* until_lsn never reports LAGGING.
FixedTailExemption ==
  \A i \in DOMAIN tr :
    env.until_lsn # LSN_MAX => tr[i].last_reported_state # Lagging

\* A completion left the lagging timer of a stream with a finite until_lsn
\* running.
FixedTailExemptionWitness ==
  /\ out.op = "completion"
  /\ env.until_lsn # LSN_MAX
  /\ \E i \in DOMAIN tr :
       /\ tr[i].last_time_lagging # TimePointMax
       /\ tr[i].last_reported_state = Healthy

\* The lag step of the last handler ran with a lag of at most the period.
NearTail(i) ==
  /\ out.op \in {"completion", "tick_nobufs"}
  /\ out.lag_input # NoLag
  /\ out.lag_input <= tr[i].tracer_period

LagRecordSizeBound ==
  \A i \in DOMAIN tr :
    Len(tr[i].time_lag_record) <= env.settings.num_groups

\* A settings update cut a bucket off a record that was full, and the record
\* is full at the new capacity.
LagRecordSizeBoundWitness ==
  /\ out.op = "settings"
  /\ \E b \in out.left : b.how = "cut"
  /\ \E i \in DOMAIN tr :
       Len(tr[i].time_lag_record) = env.settings.num_groups

\* The bucket the last handler opened, if it opened one, has this ttl.
OpenedWithTtl(i, ttl) ==
  out.opened =>
    /\ tr[i].time_lag_record # <<>>
    /\ tr[i].time_lag_record[Len(tr[i].time_lag_record)].ttl = ttl

\* C10 as stated: bucket lifetime.  A bucket is opened with ttl
\* ceil(1.25 * group_size * num_groups) and leaves the record, in whatever
\* way, exactly that many lag steps after the one that opened it.
BucketLifetime ==
  \A i \in DOMAIN tr :
    /\ OpenedWithTtl(i, (5 * env.settings.group_size * env.settings.num_groups + 3)
                           \div 4)
    /\ \A b \in out.left : b.lifetime = b.opened_ttl

\* C10: bucket lifetime.  A bucket is opened with ttl
\* floor(1.25 * group_size * num_groups); the eviction loop removes it
\* ttl + 1 lag steps after the one that opened it (a multiple of 2^16 steps
\* later when its ttl was decremented at 0 behind an older bucket); the only
\* other ways out of the record, at any age, are the push of a newer bucket
\* into a full record and a settings update that reduces the capacity.
BucketLifetimeFloor ==
  \A i \in DOMAIN tr :
    /\ OpenedWithTtl(i, (5 * env.settings.group_size * env.settings.num_groups)
                           \div 4)
    /\ \A b \in out.left :
         /\ b.how = "evicted"
              => b.lifetime % TtlModulus = (b.opened_ttl + 1) % TtlModulus
         /\ b.how = "overwritten" => out.opened
         /\ b.how = "cut" => out.op = "settings"

\* A completion evicted a bucket that was opened with a ttl of at least 2 and
\* opened a new one.
BucketLifetimeFloorWitness ==
  /\ out.op = "completion"
  /\ out.opened
  /\ \E b \in out.left : b.how = "evicted" /\ b.opened_ttl >= 2

\* is_catching_up of the lag step the tracer ran last.
CatchingUp(t) == t.last_time_lagging = TimePointMax

\* The numerator of the slope test: lag - lag0 - correction.
SlopeNumerator(t, e) ==
  estimateTimeLag(t, e) - t.time_lag_record[1].time_lag
    - SumCorr(t.time_lag_record)

\* C8 as stated: tracking-gate neutrality.  After every tick both runs track,
\* the catch-up decision of the interrupted run is that of the reference run.
TrackingGateNeutrality ==
  out.op = "tracked"
    => \A i, j \in DOMAIN tr : CatchingUp(tr[i]) <=> CatchingUp(tr[j])

\* C8: neutrality of the slope test.  After every tick both runs track and
\* after which their records hold the same number of buckets (the interrupted
\* run has lost none to eviction during its untracked ticks), lag - lag0 -
\* correction is the same in both runs, and so is the catch-up decision when
\* the lag of both runs is above the period.
SlopeTestNeutrality ==
  out.op = "tracked"
    => \A i, j \in DOMAIN tr :
         Len(tr[i].time_lag_record) = Len(tr[j].time_lag_record)
         /\ tr[i].time_lag_record # <<>>
           => /\ SlopeNumerator(tr[i], env) = SlopeNumerator(tr[j], env)
              /\ estimateTimeLag(tr[i], env) > tr[i].tracer_period
                 /\ estimateTimeLag(tr[j], env) > tr[j].tracer_period
                   => (CatchingUp(tr[i]) <=> CatchingUp(tr[j]))

\* Both runs tracked a tick with full records and found the reader not
\* catching up; the interrupted run carries the correction of an untracked
\* interval in which its lag changed.
SlopeTestNeutralityWitness ==
  /\ out.op = "tracked"
  /\ \A i \in DOMAIN tr :
       /\ Len(tr[i].time_lag_record) = tr[i].capacity
       /\ ~CatchingUp(tr[i])
  /\ \E i \in DOMAIN tr : SumCorr(tr[i].time_lag_record) # 0

\* C11: overload gating.  A tracer that does not ignore the overload detector
\* never leaves HEALTHY in a handler that runs while the detector reports
\* overloaded.
OverloadGating ==
  \A i \in DOMAIN tr :
    (/\ Handled
     /\ tr[i].alive
     /\ ~tr[i].ignore_overload
     /\ env.overloaded
     /\ out.prev_state = Healthy)
      => tr[i].last_reported_state = Healthy

\* C12: back-pressure exemption.  A tracer whose owner's window update is
\* pending at every tick and at every completion of its life reports HEALTHY
\* after each of them, whatever the lag, the reader's position and the outcome
\* of the tail queries (refused posts included).
BackPressureExemption ==
  \A i \in DOMAIN tr : tr[i].last_reported_state = Healthy

\* A tail query was refused, a threshold after the start, while an earlier one
\* was in flight: the reader is at or behind the last tail it knows and has
\* not advanced since the previous handler.
BackPressureExemptionWitness ==
  /\ out.op = "tick_nobufs"
  /\ env.now >= env.settings.reader_stuck_threshold
  /\ \E i \in DOMAIN tr :
       /\ tr[i].alive
       /\ inflight[i] > 0
       /\ tr[i].latest_tail_info.has
       /\ env.next_lsn_to_deliver <= tr[i].latest_tail_info.lsn_approx
       /\ tr[i].last_next_lsn_to_deliver = env.next_lsn_to_deliver
       /\ tr[i].last_sync_seq_request_result # OK

\* The stuck and the lagging counters of both families.
StuckOrLaggingCounters == Counters

\* C13, as stated: healthy scenario.  A tracked reader whose tail queries
\* all succeed with a lag of 0 and that is at the reported tail position
\* (next_lsn_to_deliver equal to it) at every completion reports HEALTHY after
\* every tick and completion and contributes nothing to the stuck and lagging
\* counters.
HealthyAtTail ==
  \A i \in DOMAIN tr :
    (tr[i].alive /\ hist[i].sampled \subseteq {"at"})
      => /\ tr[i].last_reported_state = Healthy
         /\ \A c \in StuckOrLaggingCounters : tr[i].stats[c] = 0

\* C13, amended: the same for a reader that is one past the reported tail
\* position at every completion (it has delivered the tail record).
HealthyPastTail ==
  \A i \in DOMAIN tr :
    (tr[i].alive /\ hist[i].sampled \subseteq {"past"})
      => /\ tr[i].last_reported_state = Healthy
         /\ \A c \in StuckOrLaggingCounters : tr[i].stats[c] = 0

\* A completion found the reader past the tail, as every completion before
\* it, a threshold after the start and after the reader had advanced.
HealthyPastTailWitness ==
  /\ out.op = "completion"
  /\ env.now >= env.settings.reader_stuck_threshold
  /\ env.next_lsn_to_deliver > 1
  /\ \E i \in DOMAIN tr :
       /\ tr[i].alive
       /\ hist[i].sampled = {"past"}
       /\ tr[i].last_next_lsn_to_deliver = env.next_lsn_to_deliver

\* C14: stuck by position.  A tracked reader whose next_lsn_to_deliver never
\* advances and whose tail queries all succeed with a tail at or ahead of it
\* reports HEALTHY after every tick and completion earlier than
\* reader_stuck_threshold after the first completion (the start of the stuck
\* condition), and STUCK after every one from reader_stuck_threshold on: it
\* becomes STUCK at the first evaluation at or after the threshold.
StuckByPosition ==
  \A i \in DOMAIN tr :
    (/\ Handled
     /\ tr[i].alive
     /\ env.next_lsn_to_deliver = 1
     /\ "past" \notin hist[i].sampled)
      => tr[i].last_reported_state =
           IF /\ hist[i].stuck_since # TimePointMax
              /\ hist[i].stuck_since + env.settings.reader_stuck_threshold
                   <= env.now
           THEN Stuck ELSE Healthy

\* The reader, which never advanced and was never past the tail, went from
\* HEALTHY to STUCK at a completion.
StuckByPositionWitness ==
  /\ out.op = "completion"
  /\ out.prev_state = Healthy
  /\ env.next_lsn_to_deliver = 1
  /\ \E i \in DOMAIN tr :
       /\ tr[i].alive
       /\ "past" \notin hist[i].sampled
       /\ tr[i].last_reported_state = Stuck

\* C15: stuck recovery.  At the end of a completion with E::OK that finds the
\* reader past the tail (next_lsn_to_deliver above the tail LSN the tracer
\* holds), the tracer reports HEALTHY, whatever it reported before: a reader
\* that was STUCK or STUCK_WHILE_FAILING_SYNC_SEQ_REQ and then advanced past
\* the tail is HEALTHY again by the end of the next successful completion.
StuckRecovery ==
  \A i \in DOMAIN tr :
    (/\ out.op = "completion"
     /\ tr[i].alive
     /\ tr[i].last_sync_seq_request_result = OK
     /\ tr[i].latest_tail_info.has
     /\ env.next_lsn_to_deliver > tr[i].latest_tail_info.lsn_approx)
      => tr[i].last_reported_state = Healthy

\* A tracked reader that was reported stuck is past the tail at a successful
\* completion.
StuckRecoveryWitness ==
  /\ out.op = "completion"
  /\ out.prev_state \in {Stuck, StuckFailing}
  /\ \E i \in DOMAIN tr :
       /\ tr[i].alive
       /\ tr[i].should_track
       /\ tr[i].last_sync_seq_request_result = OK
       /\ tr[i].latest_tail_info.has
       /\ env.next_lsn_to_deliver > tr[i].latest_tail_info.lsn_approx

\* The number of the lag sample a completion of the lagging-growth run took:
\* the lag grows by one half second per sample.
GrowthSample == out.lag_input

\* C16, as stated: lagging growth.  In the lagging-growth run the catch-up
\* predicate is true at each of the first N * G = 12 samples.
GrowthCatchUpTwelve ==
  \A i \in DOMAIN tr :
    (out.op = "completion" /\ tr[i].alive /\ GrowthSample \in 1..12)
      => CatchingUp(tr[i])

\* C16, amended: the catch-up predicate is true at each of the first
\* (N - 1) * G = 8 samples; the ninth opens the third bucket, the record is
\* full and the predicate is false, as at every later sample of the run.
GrowthCatchUpEight ==
  \A i \in DOMAIN tr :
    (out.op = "completion" /\ tr[i].alive /\ GrowthSample >= 1)
      => /\ GrowthSample <= 8 => CatchingUp(tr[i])
         /\ GrowthSample <= 8 => Len(tr[i].time_lag_record) < tr[i].capacity
         /\ GrowthSample >= 9 => ~CatchingUp(tr[i])
         /\ GrowthSample >= 9 => Len(tr[i].time_lag_record) = tr[i].capacity

\* The ninth sample of the run: the predicate is false for the first time.
GrowthCatchUpEightWitness ==
  /\ out.op = "completion"
  /\ GrowthSample = 9
  /\ out.opened
  /\ \E i \in DOMAIN tr : tr[i].alive /\ ~CatchingUp(tr[i])

\* The handler of this step found the catch-up predicate false for the first
\* time: it started the lagging timer of tracer i.
FirstNotCatchingUp(i) ==
  /\ tr[i].last_time_lagging = TimePointMax
  /\ tr'[i].last_time_lagging # TimePointMax

\* The stuck dwell of tracer t has elapsed.
StuckElapsed(t, e) ==
  /\ t.last_time_stuck # TimePointMax
  /\ t.last_time_stuck + e.settings.reader_stuck_threshold <= e.now

\* C17, as stated: lagging needs a full tick.  The handler in which the
\* catch-up predicate first evaluates false does not report LAGGING.
LaggingNeedsTick ==
  [][\A i \in DOMAIN tr :
       FirstNotCatchingUp(i) => tr'[i].last_reported_state # Lagging]_vars

\* C17, amended: lagging needs no further tick.  The handler in which the
\* catch-up predicate first evaluates false reports LAGGING before it
\* returns, unless until_lsn is a fixed target or the stuck dwell has elapsed
\* (it then reports a stuck state); LAGGING is never reported while the
\* lagging timer is not running.
LaggingAtOnce ==
  [][\A i \in DOMAIN tr :
       /\ (FirstNotCatchingUp(i) /\ env'.until_lsn = LSN_MAX)
            => IF StuckElapsed(tr'[i], env')
               THEN tr'[i].last_reported_state \in {Stuck, StuckFailing}
               ELSE tr'[i].last_reported_state = Lagging
       /\ tr'[i].last_reported_state = Lagging
            => tr'[i].last_time_lagging # TimePointMax]_vars

\* A completion found the catch-up predicate false and took the tracer from
\* HEALTHY to LAGGING.
LaggingAtOnceWitness ==
  /\ out.op = "completion"
  /\ out.prev_state = Healthy
  /\ \E i \in DOMAIN tr :
       /\ tr[i].alive
       /\ tr[i].last_reported_state = Lagging
       /\ tr[i].last_time_lagging = env.now

\* A completion with E::OK and no tail attributes.
OkWithoutAttrs == [st |-> OK, next_lsn |-> 1, attrs |-> NoAttrs]

\* This step is the completion OkWithoutAttrs of a tail query of tracer i.
CompletesWithoutAttrs(i) ==
  /\ tr[i].alive
  /\ inflight[i] > 0
  /\ inflight'[i] = inflight[i] - 1
  /\ tr'[i] = Settled(CompletionCallback(tr[i], env, OkWithoutAttrs))

\* C18: missing attributes count as failure.  A completion with E::OK and no
\* attributes is handled like a failed query: the stored status of the last
\* query is a failure, the reader is taken for stuck exactly if should_track_
\* is true, and the lag step reuses the lag of the newest bucket.
MissingAttrsAsFailure ==
  [][\A i \in DOMAIN tr :
       CompletesWithoutAttrs(i)
         => /\ tr'[i].last_sync_seq_request_result # OK
            /\ (tr'[i].last_time_stuck # TimePointMax) <=> tr[i].should_track
            /\ out'.lag_input =
                 IF tr[i].time_lag_record # <<>>
                 THEN tr[i].time_lag_record[Len(tr[i].time_lag_record)].time_lag
                 ELSE NoLag]_vars

\* The view of the source the current settings select.
SelectedView ==
  IF /\ pub.settings.enable_nodes_configuration_manager
     /\ pub.settings.use_nodes_configuration_manager_nodes_configuration
  THEN pub.ncm_nc ELSE pub.server_config_nc

\* Thread k has just returned from a publish() call that installed a
\* configuration or skipped the install, and what the call read is what the
\* sources hold.
PublishedBy(k) ==
  /\ pub.returned = k
  /\ pub.call[k].rv \in {"ok", "skipped"}
  /\ pub.call[k].settings = pub.settings
  /\ pub.call[k].ncm_nc = pub.ncm_nc
  /\ pub.call[k].server_config_nc = pub.server_config_nc

\* C19: source selection.  After a publish() call whose install succeeded or
\* was skipped, the published nodes configuration is the manager's view if
\* both enable_nodes_configuration_manager and
\* use_nodes_configuration_manager_nodes_configuration are set and the view
\* of the server config otherwise.
SourceSelection ==
  \A k \in Threads : PublishedBy(k) => pub.nodes_configuration = SelectedView

\* A call installed the manager's view over the server config's, and another
\* one left the server config's view in place with only one setting set.
SourceSelectionWitness ==
  \E k \in Threads :
    /\ PublishedBy(k)
    /\ \/ /\ pub.call[k].rv = "ok"
          /\ pub.nodes_configuration.source = "ncm"
          /\ pub.nodes_configuration.version > 1
       \/ /\ pub.call[k].rv = "skipped"
          /\ pub.settings.enable_nodes_configuration_manager
               # pub.settings.use_nodes_configuration_manager_nodes_configuration

\* Every change has been followed by its publish() call, and the call has
\* returned.
Quiescent == \A k \in Threads : pub.call[k].pc = "idle"

\* C20: publishing under concurrency.  Once every change of the settings, of
\* the server config and of the manager's configuration has been followed by
\* its publish() call, in any interleaving of the callers, the published
\* nodes configuration is the view of the source the final settings select,
\* provided no install failed.
NoStaleView ==
  (Quiescent /\ ~pub.install_failed) => pub.nodes_configuration = SelectedView

\* Both configuration sources have changed as often as they can, a caller
\* has waited for the mutex, and the last call, of a subscription, has
\* installed a configuration.
NoStaleViewWitness ==
  /\ Quiescent
  /\ ~pub.install_failed
  /\ pub.waited
  /\ pub.ncm_nc.version = MaxVersion
  /\ pub.server_config_nc.version = MaxVersion
  /\ pub.returned \in Subscriptions
  /\ pub.call[pub.returned].rv = "ok"

\* The configuration the call recorded in c selected.
ToPublish(c) ==
  IF /\ c.settings.enable_nodes_configuration_manager
     /\ c.settings.use_nodes_configuration_manager_nodes_configuration
  THEN c.ncm_nc ELSE c.server_config_nc

\* C21: idempotence of publish().  A call whose selected view is already the
\* published one performs no install.  Of two calls in a row that read the
\* same settings and sources, at most one installs, and the second leaves
\* the published view as the first one left it; only the install that the
\* first call failed to do can still be done by the second.
PublishIdempotent ==
  pub.returned # NoThread =>
    LET c == pub.last IN
    /\ ToPublish(c) = c.before
          => (c.rv = "skipped" /\ pub.nodes_configuration = c.before)
    /\ c.again # "none" => ~(c.again = "ok" /\ c.rv = "ok")
    /\ c.again \in {"ok", "skipped"}
          => (c.rv = "skipped" /\ pub.nodes_configuration = c.before)
    /\ (c.again = "failed" /\ c.rv # "ok")
          => pub.nodes_configuration = c.before

\* A subscription's call has returned without an install after a call that
\* had read the same and had installed a view of version MaxVersion.
PublishIdempotentWitness ==
  /\ pub.returned \in Subscriptions
  /\ pub.last.again = "ok"
  /\ pub.last.rv = "skipped"
  /\ pub.nodes_configuration.version = MaxVersion

\* C22: failure of the install.  When the update of the published
\* configuration fails, the configuration published before stays published
\* and publish() returns as usual, with the mutex released; the next call
\* that selects the same view attempts the update again.
InstallFailure ==
  pub.returned # NoThread =>
    LET c == pub.last IN
    /\ c.rv = "failed"
          => /\ pub.nodes_configuration = c.before
             /\ pub.nodes_configuration # ToPublish(c)
             /\ pub.call[pub.returned].pc = "idle"
             /\ pub.mutex = NoThread
    /\ c.again = "failed" => c.rv \in {"ok", "failed"}

\* After a failed install of a changed view a call of another thread has
\* read the same and has installed the view.
InstallFailureWitness ==
  /\ pub.returned \in Subscriptions
  /\ pub.last.again = "failed"
  /\ pub.last.rv = "ok"
  /\ pub.install_failed
  /\ pub.nodes_configuration.version = MaxVersion

\* The nodes with a shard in the set of the last checkImpact.
Drained == {shard[1] : shard \in out.shards}

\* The writable nodes of the nodeset of a log outside that set.
KeptWritable(log) ==
  {n \in env.nodeset[log] :
     env.storage_state[n] = "READ_WRITE" /\ n \notin Drained}

GateEvaluated ==
  \/ out'.op \in {"tick", "tick_nobufs"}
  \/ env'.redelivery_timer_active # env.redelivery_timer_active
  \/ env'.window_update_pending # env.window_update_pending

\* C24: tracking gate.  After every evaluation of the gate should_track_ is
\* true iff the worker is not overloaded, the owner's redelivery timer is
\* inactive and no window update is pending, where a tracer with
\* ignore_overload takes the worker for not overloaded.
TrackingGate ==
  [][GateEvaluated =>
       \A i \in DOMAIN tr :
         tr'[i].alive =>
           (tr'[i].should_track <=>
              /\ ~(env'.overloaded /\ ~tr'[i].ignore_overload)
              /\ ~env'.redelivery_timer_active
              /\ ~env'.window_update_pending)]_vars

\* A tick has left a tracer that ignores overload tracking on an overloaded
\* worker.
TrackingGateWitness ==
  /\ out.op = "tick"
  /\ env.overloaded
  /\ \E i \in DOMAIN tr :
       tr[i].alive /\ tr[i].ignore_overload /\ tr[i].should_track

\* The stuck dwell of tracer i has expired.
DwellExpired(i) ==
  /\ tr[i].last_time_stuck # TimePointMax
  /\ tr[i].last_time_stuck + env.settings.reader_stuck_threshold <= env.now

\* max(owner.last_released, tail_info.approx if any).
EstimatedTail(i) ==
  IF tr[i].latest_tail_info.has /\ tr[i].latest_tail_info.lsn_approx > env.last_released
  THEN tr[i].latest_tail_info.lsn_approx
  ELSE env.last_released

StoredStateDerived ==
  Handled =>
    \A i \in DOMAIN tr :
      tr[i].alive =>
        tr[i].last_reported_state = StateToReport(tr[i], env, FALSE)

\* A tick has found the stuck dwell expired and has stored STUCK over
\* HEALTHY.
StoredStateDerivedWitness ==
  /\ out.op = "tick"
  /\ out.prev_state = Healthy
  /\ \E i \in DOMAIN tr :
       /\ tr[i].alive
       /\ tr[i].last_reported_state = Stuck
       /\ tr[i].last_time_stuck + env.settings.reader_stuck_threshold = env.now

\* This step is the completion c of a tail query of tracer i, and the reader
\* has advanced since the completion before.
ProgressCompletion(i, c) ==
  /\ tr[i].alive
  /\ inflight[i] > 0
  /\ inflight'[i] = inflight[i] - 1
  /\ tr[i].last_next_lsn_to_deliver # LSN_INVALID
  /\ SampledProgress(tr[i], env)
  /\ tr'[i] = Settled(CompletionCallback(tr[i], env, c))

IgnoringOverloadFamily ==
  {"read_streams_stuck_or_lagging_ignoring_overload",
   "read_streams_stuck_ignoring_overload",
   "read_streams_lagging_ignoring_overload"}

\* The reported states a counter counts.
StatesCounted(c) ==
  IF c \in {"read_streams_stuck_or_lagging",
            "read_streams_stuck_or_lagging_ignoring_overload"}
    THEN {Stuck, Lagging}
  ELSE IF c \in {"read_streams_stuck", "read_streams_stuck_ignoring_overload"}
    THEN {Stuck, StuckFailing}
  ELSE IF c \in {"read_streams_lagging",
                 "read_streams_lagging_ignoring_overload"}
    THEN {Lagging}
  ELSE {StuckFailing}

\* C28: counter membership.  Between operations the net contribution of a
\* live tracer to each counter of the family its ignore_overload flag
\* selects is 1 if its reported state is one the counter counts
\* (stuck_or_lagging: STUCK, LAGGING; stuck: STUCK,
\* STUCK_WHILE_FAILING_SYNC_SEQ_REQ; lagging: LAGGING;
\* stuck_failing_sync_seq_req: STUCK_WHILE_FAILING_SYNC_SEQ_REQ) and 0
\* otherwise, and its net contribution to each counter of the other family
\* is 0.
CounterMembership ==
  \A i \in DOMAIN tr :
    tr[i].alive =>
      \A c \in Counters :
        tr[i].stats[c] =
          IF /\ (c \in IgnoringOverloadFamily) <=> tr[i].ignore_overload
             /\ tr[i].last_reported_state \in StatesCounted(c)
          THEN 1 ELSE 0

\* A shadow tracer reports STUCK_WHILE_FAILING_SYNC_SEQ_REQ and counts in
\* read_streams_stuck_ignoring_overload only.
CounterMembershipWitness ==
  \E i \in DOMAIN tr :
    /\ tr[i].alive
    /\ tr[i].ignore_overload
    /\ tr[i].last_reported_state = StuckFailing
    /\ tr[i].stats["read_streams_stuck_ignoring_overload"] = 1
    /\ tr[i].stats["read_streams_stuck"] = 0

\* This step is a tick of tracer i whose tail query could not be posted.
NoBuffersTick(i) ==
  /\ tr[i].alive
  /\ out'.op = "tick_nobufs"
  /\ tr'[i].timer_deadline = env.now + tr[i].tracer_period

\* C29: synchronous post failure.  If postRequest fails, the completion
\* handler runs exactly once within the tick, with E::NOBUFS and no
\* attributes, and no request is left to complete later: the stored status
\* of the last tail query is E::NOBUFS, the tail info is as before, the
\* stuck update has sampled the reader (stuck exactly if it was tracked), the
\* lag update has repeated the lag of the newest bucket and aged the record,
\* and traceReaderFlow() and bumpHistograms() have been called once.
SynchronousPostFailure ==
  [][\A i \in DOMAIN tr :
       NoBuffersTick(i)
         => /\ out'.traced = 1
            /\ inflight'[i] = inflight[i]
            /\ tr'[i].last_sync_seq_request_result = "NOBUFS"
            /\ tr'[i].latest_tail_info = tr[i].latest_tail_info
            /\ tr'[i].last_next_lsn_to_deliver = env.next_lsn_to_deliver
            /\ (tr'[i].last_time_stuck # TimePointMax) <=> tr[i].should_track
            /\ tr[i].time_lag_record # <<>>
                 => /\ out'.lag_input =
                         tr[i].time_lag_record[Len(tr[i].time_lag_record)].time_lag
                    /\ tr'[i].time_lag_record # tr[i].time_lag_record]_vars

\* A tracked tracer with a bucket in its lag record has gone through a tick
\* whose tail query could not be posted.
SynchronousPostFailureWitness ==
  /\ out.op = "tick_nobufs"
  /\ out.traced = 1
  /\ out.lag_input # NoLag
  /\ \E i \in DOMAIN tr :
       /\ tr[i].alive
       /\ tr[i].last_sync_seq_request_result = "NOBUFS"
       /\ tr[i].last_time_stuck = env.now
       /\ tr[i].latest_tail_info.has

\* This step is the completion c of a tail query of tracer i.
Completes(i, c) ==
  /\ tr[i].alive
  /\ inflight[i] > 0
  /\ inflight'[i] = inflight[i] - 1
  /\ tr'[i] = Settled(CompletionCallback(tr[i], env, c))

\* The completion carries tail attributes.
Latches(c) == c.st = OK /\ c.attrs.has

\* C30: tail-info latch.  latest_tail_info_ changes only in a completion
\* with E::OK and attributes, which stores the timestamp of the attributes
\* and, as lsn_approx, their last_released_real_lsn if it is valid and
\* next_lsn - 1 otherwise; every other completion (a failure, a timeout,
\* E::NOBUFS, E::OK without attributes) and every other step leaves it as it
\* is.
TailInfoLatch ==
  [][\A i \in DOMAIN tr :
       /\ \A c \in LatchCompletions :
            Completes(i, c)
              => tr'[i].latest_tail_info =
                   IF Latches(c)
                   THEN [has |-> TRUE,
                         timestamp |-> c.attrs.last_timestamp,
                         lsn_approx |->
                           IF c.attrs.last_released_real_lsn # LSN_INVALID
                           THEN c.attrs.last_released_real_lsn
                           ELSE c.next_lsn - 1]
                   ELSE tr[i].latest_tail_info
       /\ tr'[i].latest_tail_info # tr[i].latest_tail_info
            => \E c \in LatchCompletions : Latches(c) /\ Completes(i, c)]_vars

\* A failed tail query has completed after one whose attributes had no last
\* released real lsn: the tail info holds next_lsn - 1 = MaxLsn.
TailInfoLatchWitness ==
  /\ out.op \in {"completion", "tick_nobufs"}
  /\ \E i \in DOMAIN tr :
       /\ tr[i].alive
       /\ tr[i].last_sync_seq_request_result # OK
       /\ tr[i].latest_tail_info.has
       /\ tr[i].latest_tail_info.lsn_approx = MaxLsn
       /\ tr[i].latest_tail_info.timestamp = MaxTs

\* A tail query that failed.
FailedQuery == [st |-> "TIMEDOUT", next_lsn |-> LSN_INVALID, attrs |-> NoAttrs]

\* C31: failure reuses the last lag sample.  In the completion of a failed
\* tail query with a non-empty lag record the lag step works with the
\* time_lag of the newest bucket, and a bucket opened by that completion
\* holds this lag; with an empty lag record the lag step is skipped: the
\* record stays empty, the sample counter and first_lagging_at are as before.
FailureReusesLag ==
  [][\A i \in DOMAIN tr :
       Completes(i, FailedQuery) =>
         LET rec == tr[i].time_lag_record
             rec1 == tr'[i].time_lag_record
         IN IF rec # <<>>
            THEN /\ out'.lag_input = rec[Len(rec)].time_lag
                 /\ out'.opened =>
                      /\ rec1 # <<>>
                      /\ rec1[Len(rec1)].time_lag = rec[Len(rec)].time_lag
                      /\ rec1[Len(rec1)].age = 0
            ELSE /\ out'.lag_input = NoLag
                 /\ rec1 = <<>>
                 /\ tr'[i].sample_counter = tr[i].sample_counter
                 /\ tr'[i].last_time_lagging = tr[i].last_time_lagging]_vars

\* A failed completion has opened a bucket with the lag of the bucket before
\* it while the estimate from the tail info was another one.
FailureReusesLagWitness ==
  /\ out.op = "completion"
  /\ out.opened
  /\ \E i \in DOMAIN tr :
       /\ tr[i].last_sync_seq_request_result # OK
       /\ Len(tr[i].time_lag_record) >= 2
       /\ LET rec == tr[i].time_lag_record
          IN /\ rec[Len(rec)].time_lag = rec[Len(rec) - 1].time_lag
             /\ estimateTimeLag(tr[i], env) # NoLag
             /\ estimateTimeLag(tr[i], env) # rec[Len(rec)].time_lag

\* The handler of this step finds no lag estimate for tracer i.
NoEstimate(i) == tr[i].alive /\ estimateTimeLag(tr'[i], env') = NoLag

\* C32 as stated: while no lag estimate is available, first_lagging_at is
\* never set and no bucket is opened, so the reported state cannot become
\* LAGGING.
AbsentLagEstimateAsStated ==
  [][\A i \in DOMAIN tr :
       NoEstimate(i) =>
         /\ ~out'.opened
         /\ tr[i].last_time_lagging = TimePointMax
              => tr'[i].last_time_lagging = TimePointMax
         /\ tr'[i].last_reported_state = Lagging
              => tr[i].last_reported_state = Lagging]_vars


\* C32: absent lag estimate.  While no lag estimate is available,
\* first_lagging_at is never set and the reported state does not become
\* LAGGING; a bucket is opened only by the handler of a failed tail query
\* that finds the lag record non-empty, and it repeats the lag of the newest
\* bucket.
AbsentLagEstimate ==
  [][\A i \in DOMAIN tr :
       NoEstimate(i) =>
         /\ out'.opened =>
              /\ tr'[i].last_sync_seq_request_result # OK
              /\ tr[i].time_lag_record # <<>>
              /\ LET rec == tr[i].time_lag_record
                     rec1 == tr'[i].time_lag_record
                 IN rec1[Len(rec1)].time_lag = rec[Len(rec)].time_lag
         /\ tr[i].last_time_lagging = TimePointMax
              => tr'[i].last_time_lagging = TimePointMax
         /\ tr'[i].last_reported_state = Lagging
              => tr[i].last_reported_state = Lagging]_vars

\* A failed tail query has opened a bucket while there was no estimate.
AbsentLagEstimateWitness ==
  /\ out.opened
  /\ \E i \in DOMAIN tr :
       /\ tr[i].alive
       /\ tr[i].latest_tail_info.has
       /\ estimateTimeLag(tr[i], env) = NoLag
       /\ tr[i].last_sync_seq_request_result # OK
       /\ tr[i].last_time_lagging = TimePointMax

\* The handler of a tail query result runs for tracer i in this step.
LagStep(i) == tr[i].alive /\ out'.op \in {"completion", "tick_nobufs"}

\* The TTLs of a lag record, oldest bucket first.
Ttls(rec) == [j \in 1..Len(rec) |-> rec[j].ttl]

\* The sample of this step is counted: on a multiple of the group size it
\* opens a bucket, and the counter advances.
CountedSample(i) ==
  LET group_size == Max(env.settings.group_size, 1)
  IN /\ out'.opened <=> tr[i].sample_counter % group_size = 0
     /\ tr'[i].sample_counter % group_size
          = (tr[i].sample_counter + 1) % group_size

\* The step neither counts a sample nor opens a bucket.
NoSample(i) ==
  /\ ~out'.opened
  /\ tr'[i].sample_counter = tr[i].sample_counter

\* The step evicts the expired buckets at the front and decrements every TTL.
AgesTtls(i) ==
  Ttls(tr'[i].time_lag_record)
    = Ttls(DecrementTtls(PopOldSamples(tr[i].time_lag_record)))

\* C33 as stated: handlers with should_track false or without a lag input
\* still age the TTLs.
BucketCadenceAsStated ==
  [][\A i \in DOMAIN tr :
       LagStep(i) =>
         IF tr[i].should_track /\ out'.lag_input # NoLag
         THEN CountedSample(i)
         ELSE NoSample(i) /\ AgesTtls(i)]_vars

\* C33: bucket cadence.  A bucket is opened on the samples at which the
\* sample counter is a multiple of group_size (0 clamped to 1), that is once
\* every group_size samples.  A handler with a lag input and should_track
\* false ages the TTLs, does not advance the counter and opens no bucket; a
\* handler without a lag input leaves the lag record, TTLs included, and the
\* counter as they are.
BucketCadence ==
  [][\A i \in DOMAIN tr :
       LagStep(i) =>
         IF out'.lag_input = NoLag
         THEN /\ NoSample(i)
              /\ Ttls(tr'[i].time_lag_record) = Ttls(tr[i].time_lag_record)
         ELSE IF tr[i].should_track
         THEN CountedSample(i)
         ELSE NoSample(i) /\ AgesTtls(i)]_vars

\* With group_size 0 two buckets were opened by two samples in a row, and
\* the handler that ran last found no lag input and left their TTLs alone.
BucketCadenceWitness ==
  /\ env.settings.group_size = 0
  /\ out.op = "completion"
  /\ out.lag_input = NoLag
  /\ \E i \in DOMAIN tr :
       /\ Len(tr[i].time_lag_record) = 2
       /\ tr[i].time_lag_record[1].age = tr[i].time_lag_record[2].age + 1

\* The buckets of the lag record are in the order in which they were opened.
InsertionOrder(rec) ==
  \A j \in 1..(Len(rec) - 1) : rec[j].age > rec[j + 1].age

\* C34 as stated: the buckets are in insertion order and their TTLs are
\* non-increasing from the oldest bucket to the newest.
TtlOrderingAsStated ==
  \A i \in DOMAIN tr :
    LET rec == tr[i].time_lag_record
    IN /\ InsertionOrder(rec)
       /\ \A j \in 1..(Len(rec) - 1) : rec[j].ttl >= rec[j + 1].ttl

\* C34: TTL ordering.  With group_size and num_groups as they were at
\* construction, in every reachable state the buckets of the lag record are
\* in insertion order and their TTLs are non-decreasing from the oldest
\* bucket to the newest.
TtlOrdering ==
  \A i \in DOMAIN tr :
    LET rec == tr[i].time_lag_record
    IN /\ InsertionOrder(rec)
       /\ \A j \in 1..(Len(rec) - 1) : rec[j].ttl <= rec[j + 1].ttl

\* A full record of two buckets: the older one was aged while the gate was
\* closed and is about to expire, the newer one has just been opened.
TtlOrderingWitness ==
  \E i \in DOMAIN tr :
    LET rec == tr[i].time_lag_record
    IN /\ Len(rec) = 2
       /\ Len(rec) = tr[i].capacity
       /\ rec[1].ttl = 0
       /\ rec[2].ttl = rec[2].opened_ttl
       /\ rec[1].age > env.settings.group_size

\* The completion of this step is a tracked sample of tracer i, and its
\* catch-up test is the one with window = T * (G * (N - 1) + counter mod G).
TestedWithCounter(i, counter) ==
  LET group_size == Max(env.settings.group_size, 1)
      window == tr[i].tracer_period
                  * (group_size * (env.settings.num_groups - 1)
                     + (counter % group_size))
  IN (tr'[i].last_time_lagging = TimePointMax)
       <=> IsCatchingUp(out'.lag_input, tr[i].tracer_period,
                        tr'[i].time_lag_record, tr[i].capacity,
                        env.settings.slope_num, env.settings.slope_den, window)

\* C35: slope window.  At every tracked sample the catch-up test uses
\* window = T * (group_size * (num_groups - 1) + i) with i the sample counter
\* modulo group_size, taken from the counter value whose divisibility by
\* group_size decides whether the sample opens a bucket (i = 0 on a sample
\* that opens a bucket).
SlopeWindow ==
  [][\A i \in DOMAIN tr :
       (/\ tr[i].alive
        /\ out'.op = "completion"
        /\ tr[i].should_track
        /\ out'.lag_input # NoLag)
       => TestedWithCounter(i, tr[i].sample_counter)]_vars

\* The corrections of a lag record, oldest bucket first.
Corrs(rec) == [j \in 1..Len(rec) |-> rec[j].time_lag_correction]

\* What a step that makes should_track `now` out of `was` adds to the
\* correction of the newest bucket, the current lag being `lag`.
GateCorrection(was, now, lag) ==
  IF was = now \/ lag = NoLag THEN 0
  ELSE IF now THEN lag ELSE 0 - lag

\* C36: corrections come only from gate transitions.  Every bucket is opened
\* with time_lag_correction 0; the correction of a bucket changes only in a
\* step that flips should_track, and only on the newest bucket: by minus the
\* current lag from tracked to untracked and by plus the current lag from
\* untracked to tracked; a gate evaluation that does not flip should_track
\* leaves the lag record as it is.
CorrectionsFromGate ==
  [][\A i \in DOMAIN tr :
       tr[i].alive =>
         LET rec == tr[i].time_lag_record
             rec1 == tr'[i].time_lag_record
             n1 == Len(rec1)
             delta == GateCorrection(tr[i].should_track, tr'[i].should_track,
                                     estimateTimeLag(tr'[i], env'))
             before == IF n1 = 0 THEN <<>>
                       ELSE [Corrs(rec1) EXCEPT ![n1] = @ - delta]
             kept == IF out'.opened THEN n1 - 1 ELSE n1
         IN /\ out'.opened => before[n1] = 0
            /\ kept <= Len(rec)
            /\ SubSeq(before, 1, kept)
                 = SubSeq(Corrs(rec), Len(rec) - kept + 1, Len(rec))
            /\ (/\ out'.op \notin {"completion", "tick_nobufs"}
                /\ tr'[i].should_track = tr[i].should_track)
               => rec1 = rec]_vars

\* The gate has closed and opened again while the lag grew: the newest
\* bucket, opened with correction 0, carries the growth of the pause, and an
\* older bucket carries no correction.
CorrectionsFromGateWitness ==
  /\ out.op = "none"
  /\ \E i \in DOMAIN tr :
       /\ tr[i].should_track
       /\ Len(tr[i].time_lag_record) = 2
       /\ tr[i].time_lag_record[1].time_lag_correction = 0
       /\ tr[i].time_lag_record[2].time_lag_correction > 0

\* C37: timer lifecycle.  After construction, after every settings update
\* and after every tick the timer of a tracer is active iff its tick period
\* is not 0, and the period is the one of the settings; a tick happens only
\* with a period other than 0 and activates the timer again with that period;
\* as long as the tracer lives with a period other than 0, ticks keep
\* occurring.
TimerLifecycle ==
  /\ [](\A i \in DOMAIN tr :
          tr[i].alive =>
            /\ tr[i].timer_active <=> tr[i].tracer_period # 0
            /\ tr[i].tracer_period = env.settings.tracer_period)
  /\ [][\A i \in DOMAIN tr :
          (tr[i].alive /\ Ticked')
          => /\ tr[i].tracer_period # 0
             /\ tr'[i].timer_active
             /\ tr'[i].timer_deadline = env.now + tr[i].tracer_period]_vars
  /\ []<>(\E i \in DOMAIN tr :
            ~tr[i].alive \/ tr[i].tracer_period = 0 \/ Ticked)

\* A tick has just activated the timer again: it expires one period from
\* now.
TimerLifecycleWitness ==
  /\ Ticked
  /\ \E i \in DOMAIN tr :
       /\ tr[i].alive
       /\ tr[i].timer_active
       /\ tr[i].timer_deadline = env.now + tr[i].tracer_period
       /\ tr[i].timer_deadline > env.now

\* C38: settings resize.  A settings update sets the capacity of the lag
\* record to the new num_groups and preserves its content up to the new
\* capacity: a capacity that is not below the size keeps every bucket, in
\* order; a capacity below the size leaves exactly that many buckets, the
\* oldest ones, in their order and with their fields unchanged.
SettingsResize ==
  [][\A i \in DOMAIN tr :
       (tr[i].alive /\ out'.op = "settings") =>
         LET rec == tr[i].time_lag_record
             rec1 == tr'[i].time_lag_record
             len == env'.settings.num_groups
         IN /\ tr'[i].capacity = len
            /\ IF len >= Len(rec)
               THEN rec1 = rec
               ELSE /\ Len(rec1) = len
                    /\ \A j \in 1..len : rec1[j] = rec[j]]_vars

\* A settings update has lowered num_groups below the size of the record:
\* the older of two buckets is left.
SettingsResizeWitness ==
  /\ out.op = "settings"
  /\ \E i \in DOMAIN tr :
       /\ tr[i].capacity = 1
       /\ Len(tr[i].time_lag_record) = 1
       /\ \E b \in out.left :
            /\ b.how = "cut"
            /\ b.lifetime < tr[i].time_lag_record[1].age

\* The handler of a tail query result of tracer i runs in this step.
HandlesResult(i) ==
  \/ inflight'[i] < inflight[i] /\ tr[i].alive
  \/ out'.op = "tick_nobufs" /\ tr'[i] # tr[i]

\* C39: shadow pairing.  A tracer created with ignore_overload = false owns
\* exactly one shadow tracer, which has ignore_overload = true and
\* push_samples = false and owns no shadow of its own; the shadow never
\* publishes a trace sample; every redelivery-timer, window-update and
\* settings callback the primary is handed is handed to the shadow exactly
\* once, so that the shadow has the gate and the settings of that callback.
ShadowPairing ==
  /\ [](\A i \in DOMAIN tr :
          LET shadow == tr[i].tracer_ignoring_overload IN
          IF tr[i].ignore_overload
          THEN shadow = NoTracer
          ELSE /\ shadow \in DOMAIN tr \ {i}
               /\ tr[shadow].ignore_overload
               /\ ~tr[shadow].push_samples
               /\ tr[shadow].tracer_ignoring_overload = NoTracer
               /\ Cardinality(DOMAIN tr) = 2)
  /\ [][\A i \in DOMAIN tr :
          /\ (HandlesResult(i) /\ tr[i].ignore_overload /\ ~tr[i].push_samples)
               => out'.pushed = 0
          /\ out'.op \in {"callback", "settings"} => tr'[i].calls = 1
          /\ out'.op = "callback" => tr'[i].should_track = ShouldTrack(tr[i], env')
          /\ out'.op = "settings"
               => /\ tr'[i].capacity = env'.settings.num_groups
                  /\ tr'[i].tracer_period = env'.settings.tracer_period]_vars

\* The worker is overloaded: a callback of the read stream has reached both
\* tracers, it has opened the gate of the shadow and not the gate of the
\* primary.
ShadowPairingWitness ==
  /\ out.op = "callback"
  /\ env.overloaded
  /\ DOMAIN tr = {Primary, Shadow}
  /\ tr[Primary].calls = 1 /\ tr[Shadow].calls = 1
  /\ ~tr[Primary].should_track
  /\ tr[Shadow].should_track
  /\ tr[Shadow].last_sync_seq_request_result # OK

\* C40: no TTL wrap-around.  Whatever the completions, the gate changes and
\* the settings updates that change group_size or num_groups, no bucket's TTL
\* is decremented when it is already 0: a bucket whose TTL is 0 is evicted
\* before the decrement, also when it is not the oldest bucket, so the TTL of
\* a bucket is never above the TTL it was opened with.
NoTtlWrap ==
  \A i \in DOMAIN tr :
    \A j \in 1..Len(tr[i].time_lag_record) :
      LET b == tr[i].time_lag_record[j]
      IN b.ttl + b.age = b.opened_ttl

====
